---- MODULE Spec2Model ----
(***************************************************************************)
(* Model of the emotion kiosk: the stabilization buffer                    *)
(* (src/legacy/emotion_buffer.py, class EmotionBuffer), the audio player   *)
(* (src/legacy/audio_player.py, class AudioPlayer), the camera             *)
(* (src/legacy/camera.py, class Camera) and the kiosk's state machine      *)
(* (src/legacy/main.py, class EmotionKiosk).  Each component has a         *)
(* specification of its own; the components it does not drive stay as      *)
(* they were constructed.                                                  *)
(*                                                                         *)
(* Time is counted in tenths of a second (time.time() is the variable      *)
(* now); a confidence is an integer number of percent; a float quotient    *)
(* a / b is kept as the exact fraction <<a, b>>.                           *)
(***************************************************************************)
EXTENDS Integers, Sequences, FiniteSets, TLC

VARIABLES
    buffer_duration,    \* self.buffer_duration, tenths of a second
    min_predictions,    \* self.min_predictions
    predictions,        \* self.predictions: sequence of [t, e, c]
    locked_emotion,     \* self.locked_emotion (NoneVal or a label)
    locked_confidence,  \* self.locked_confidence (NoneVal or a fraction)
    lock_time,          \* self.lock_time (NoneVal or a time)
    now,                \* the wall clock read by time.time()
    ret,                \* the last call on the buffer and what it returned
    reset_from,         \* history: the locked_emotion the last reset() found
    fed,                \* history of the scenario driver: what it has fed so far
    ap,                 \* the AudioPlayer object (NoneVal: none constructed)
    mixer,              \* the audio device behind pygame.mixer
    aret,               \* the last call on the player and how it ended
    started,            \* history: the clips each category has started, in order
    cam,                \* the Camera object (NoneVal: none constructed)
    reader,             \* the camera's reader thread
    caller,             \* the thread that calls read_frame() and release()
    device,             \* the capture device behind cv2.VideoCapture
    kiosk,              \* the EmotionKiosk object (NoneVal: none constructed)
    tick                \* history: what the last tick of the main loop was given

bufferOnlyVars == <<buffer_duration, min_predictions, predictions, locked_emotion,
                    locked_confidence, lock_time, ret, reset_from, fed>>
audioVars == <<ap, mixer, aret, started>>
cameraVars == <<cam, reader, caller, device>>
kioskVars == <<kiosk, tick>>

vars == <<buffer_duration, min_predictions, predictions, locked_emotion,
          locked_confidence, lock_time, now, ret, reset_from, fed,
          audioVars, cameraVars, kioskVars>>

bufferVars == <<buffer_duration, min_predictions, predictions, locked_emotion,
                locked_confidence, lock_time, ret>>

----------------------------------------------------------------------------
(* Bounds of the model *)

\* the clock stops advancing at MaxTime
MaxTime == 5
\* add_prediction is not called on a buffer that already holds MaxLen entries
MaxLen == 3

\* the scenario driver sleeps ScenarioStep tenths of a second, or not at all,
\* between two predictions
ScenarioStep == 5

(* Program constants *)

\* time_span < self.buffer_duration * 0.7, in tenths
SpanTenths == 7
\* count / len(emotions) < 0.4, in tenths
AgreeTenths == 4
\* SCAN_DURATION = 3.0 seconds, in tenths of a second
SCAN_DURATION == 30
\* EmotionBuffer(buffer_duration=self.SCAN_DURATION, min_predictions=8)
KioskMinPredictions == 8

(* Input sets *)

NoneVal == "None"
\* labels the classifier can return (a subset of EMOTIONS)
Labels == {"Happy", "Sad", "Neutral"}
\* the (label, confidence) pairs the classifier returns in Spec, in percent
ClassifierOutputs ==
    {<<"Happy", 40>>, <<"Happy", 80>>, <<"Sad", 40>>, <<"Neutral", 80>>}
\* constructor arguments explored by Spec, tenths of a second / counts
Durations == {4}
MinPredictions == {2, 3}

----------------------------------------------------------------------------
(* Fractions: <<a, b>> stands for the float a / b, b > 0 *)

Frac(a, b) == <<a, b>>
FracEq(x, y) == x[1] * y[2] = y[1] * x[2]
FracLess(x, y) == x[1] * y[2] < y[1] * x[2]
FracLeq(x, y) == x[1] * y[2] <= y[1] * x[2]
ZeroFrac == Frac(0, 1)
OneFrac == Frac(1, 1)

Min(a, b) == IF a <= b THEN a ELSE b

----------------------------------------------------------------------------
(* Helpers of the buffer *)

\* mutant: the cutoff comparison is strict, so an entry exactly buffer_duration old goes
TrimStrict(preds, cutoff) == SelectSeq(preds, LAMBDA p : p.t > cutoff)

\* mutant: the eviction is forgotten
TrimKeepAll(preds, cutoff) == preds

\* the list comprehension of add_prediction: entries with t >= cutoff, in order
Trim(preds, cutoff) == SelectSeq(preds, LAMBDA p : p.t >= cutoff)

\* self.predictions[-1][0] - self.predictions[0][0]
TimeSpan(preds) == preds[Len(preds)].t - preds[1].t

\* Counter(emotions)[e]
CountOf(preds, e) == Cardinality({i \in 1..Len(preds) : preds[i].e = e})

\* position at which e is first counted (Counter keeps insertion order)
FirstIndex(preds, e) ==
    CHOOSE i \in 1..Len(preds) :
        /\ preds[i].e = e
        /\ \A j \in 1..(i - 1) : preds[j].e # e

\* mutant: on a tie the label counted last wins
MostCommonLastTied(preds) ==
    LET present == {preds[i].e : i \in 1..Len(preds)}
    IN  CHOOSE e \in present :
            \A o \in present \ {e} :
                \/ CountOf(preds, e) > CountOf(preds, o)
                \/ /\ CountOf(preds, e) = CountOf(preds, o)
                   /\ FirstIndex(preds, e) > FirstIndex(preds, o)

\* counter.most_common(1)[0][0]: the highest count, the first counted on a tie
MostCommon(preds) ==
    LET present == {preds[i].e : i \in 1..Len(preds)}
    IN  CHOOSE e \in present :
            \A o \in present \ {e} :
                \/ CountOf(preds, e) > CountOf(preds, o)
                \/ /\ CountOf(preds, e) = CountOf(preds, o)
                   /\ FirstIndex(preds, e) < FirstIndex(preds, o)

RECURSIVE SumConf(_, _)
\* sum(confidences) over the entries labelled e
SumConf(preds, e) ==
    IF preds = <<>> THEN 0
    ELSE (IF Head(preds).e = e THEN Head(preds).c ELSE 0) + SumConf(Tail(preds), e)

RECURSIVE SumAll(_)
SumAll(preds) == IF preds = <<>> THEN 0 ELSE Head(preds).c + SumAll(Tail(preds))

\* mutant: the average runs over every buffered confidence
AvgConfidenceAll(preds, e) == Frac(SumAll(preds), Len(preds))

\* sum(confidences) / len(confidences) for the majority emotion
AvgConfidence(preds, e) == Frac(SumConf(preds, e), CountOf(preds, e))

\* the guards of get_stable_emotion, in the order the code tests them
EnoughCount(preds, minp) == ~(Len(preds) < minp)
\* mutant: half of the window is span enough
EnoughSpanHalf(preds, dur) ==
    ~(preds # <<>> /\ TimeSpan(preds) * 10 < dur * (SpanTenths - 2))

EnoughSpan(preds, dur) ==
    ~(preds # <<>> /\ TimeSpan(preds) * 10 < dur * SpanTenths)
\* mutant: the agreement threshold is 30% instead of 40%
EnoughAgreementLow(preds) ==
    ~(CountOf(preds, MostCommon(preds)) * 10 < Len(preds) * (AgreeTenths - 1))

EnoughAgreement(preds) ==
    ~(CountOf(preds, MostCommon(preds)) * 10 < Len(preds) * AgreeTenths)

\* mutant: the locked shortcut is missing
ProgressValueNoLock(preds, locked, dur, minp) ==
    IF preds = <<>> THEN ZeroFrac
    ELSE LET num == Min(dur, TimeSpan(preds)) * minp + Min(minp, Len(preds)) * dur
             den == 2 * dur * minp
         IN  Frac(Min(den, num), den)

\* mutant: the two fractions are multiplied instead of averaged
ProgressValueProduct(preds, locked, dur, minp) ==
    IF locked # NoneVal THEN OneFrac
    ELSE IF preds = <<>> THEN ZeroFrac
    ELSE Frac(Min(dur, TimeSpan(preds)) * Min(minp, Len(preds)), dur * minp)

\* the value get_progress returns
ProgressValue(preds, locked, dur, minp) ==
    IF locked # NoneVal THEN OneFrac
    ELSE IF preds = <<>> THEN ZeroFrac
    ELSE LET num == Min(dur, TimeSpan(preds)) * minp + Min(minp, Len(preds)) * dur
             den == 2 * dur * minp
         IN  Frac(Min(den, num), den)

Progress == ProgressValue(predictions, locked_emotion, buffer_duration, min_predictions)

\* how the confidences of a scenario's predictions run
Profiles == {"rising", "falling", "by_label"}

NoFed == [n |-> 0, first |-> 0, last |-> 0, profile |-> "rising",
          count |-> [e \in Labels |-> 0], sum |-> [e \in Labels |-> 0]]

\* the components a specification does not drive: none is constructed
NoAudio ==
    /\ ap = NoneVal
    /\ mixer = NoneVal
    /\ aret = NoneVal
    /\ started = NoneVal
NoCamera ==
    /\ cam = NoneVal
    /\ reader = NoneVal
    /\ caller = NoneVal
    /\ device = NoneVal
NoKiosk ==
    /\ kiosk = NoneVal
    /\ tick = NoneVal
NoBuffer ==
    /\ buffer_duration = NoneVal
    /\ min_predictions = NoneVal
    /\ predictions = NoneVal
    /\ locked_emotion = NoneVal
    /\ locked_confidence = NoneVal
    /\ lock_time = NoneVal
    /\ ret = NoneVal
    /\ reset_from = NoneVal
    /\ fed = NoneVal

----------------------------------------------------------------------------
(* Operations of EmotionBuffer *)

Init ==
    /\ buffer_duration \in Durations
    /\ min_predictions \in MinPredictions
    /\ predictions = <<>>
    /\ locked_emotion = NoneVal
    /\ locked_confidence = NoneVal
    /\ lock_time = NoneVal
    /\ now = 0
    /\ ret = [op |-> "init", val |-> NoneVal]
    /\ reset_from = NoneVal
    /\ fed = NoFed
    /\ NoAudio /\ NoCamera /\ NoKiosk

\* time passes between two calls
Tick ==
    /\ now < MaxTime
    /\ now' = now + 1
    /\ UNCHANGED <<bufferVars, reset_from, fed>>
    /\ UNCHANGED <<audioVars, cameraVars, kioskVars>>

\* mutant: the early return on a locked buffer is missing
add_prediction_unguarded(emotion, confidence) ==
    /\ predictions' = Trim(Append(predictions,
                                  [t |-> now, e |-> emotion, c |-> confidence]),
                           now - buffer_duration)
    /\ ret' = [op |-> "add_prediction", val |-> NoneVal]
    /\ UNCHANGED <<buffer_duration, min_predictions, locked_emotion,
                   locked_confidence, lock_time, now>>

add_prediction(emotion, confidence) ==
    /\ IF locked_emotion # NoneVal
       THEN UNCHANGED predictions
       ELSE predictions' = Trim(Append(predictions,
                                       [t |-> now, e |-> emotion, c |-> confidence]),
                                now - buffer_duration)
    /\ ret' = [op |-> "add_prediction", val |-> NoneVal]
    /\ UNCHANGED <<buffer_duration, min_predictions, locked_emotion,
                   locked_confidence, lock_time, now>>

get_stable_emotion ==
    /\ IF locked_emotion # NoneVal
       THEN /\ ret' = [op |-> "get_stable_emotion",
                       val |-> <<locked_emotion, locked_confidence>>]
            /\ UNCHANGED <<locked_emotion, locked_confidence, lock_time>>
       ELSE IF \/ ~EnoughCount(predictions, min_predictions)
               \/ ~EnoughSpan(predictions, buffer_duration)
               \/ ~EnoughAgreement(predictions)
       THEN /\ ret' = [op |-> "get_stable_emotion", val |-> <<NoneVal, ZeroFrac>>]
            /\ UNCHANGED <<locked_emotion, locked_confidence, lock_time>>
       ELSE LET majority_emotion == MostCommon(predictions)
                avg_confidence == AvgConfidence(predictions, majority_emotion)
            IN  /\ locked_emotion' = majority_emotion
                /\ locked_confidence' = avg_confidence
                /\ lock_time' = now
                /\ ret' = [op |-> "get_stable_emotion",
                           val |-> <<majority_emotion, avg_confidence>>]
    /\ UNCHANGED <<buffer_duration, min_predictions, predictions, now>>

get_progress ==
    /\ ret' = [op |-> "get_progress", val |-> Progress]
    /\ UNCHANGED <<buffer_duration, min_predictions, predictions, locked_emotion,
                   locked_confidence, lock_time, now>>

\* mutant: the buffer is cleared but the verdict stays locked
reset_keeps_lock ==
    /\ predictions' = <<>>
    /\ ret' = [op |-> "reset", val |-> NoneVal]
    /\ UNCHANGED <<buffer_duration, min_predictions, locked_emotion,
                   locked_confidence, lock_time, now>>

reset ==
    /\ predictions' = <<>>
    /\ locked_emotion' = NoneVal
    /\ locked_confidence' = NoneVal
    /\ lock_time' = NoneVal
    /\ ret' = [op |-> "reset", val |-> NoneVal]
    /\ UNCHANGED <<buffer_duration, min_predictions, now>>

AddPrediction ==
    /\ locked_emotion = NoneVal => Len(predictions) < MaxLen
    /\ \E out \in ClassifierOutputs : add_prediction(out[1], out[2])
    /\ UNCHANGED <<reset_from, fed>>
    /\ UNCHANGED <<audioVars, cameraVars, kioskVars>>

GetStableEmotion ==
    /\ get_stable_emotion
    /\ UNCHANGED <<reset_from, fed>>
    /\ UNCHANGED <<audioVars, cameraVars, kioskVars>>

GetProgress ==
    /\ get_progress
    /\ UNCHANGED <<reset_from, fed>>
    /\ UNCHANGED <<audioVars, cameraVars, kioskVars>>

Reset ==
    /\ reset
    /\ reset_from' = locked_emotion
    /\ UNCHANGED fed
    /\ UNCHANGED <<audioVars, cameraVars, kioskVars>>

Next ==
    \/ Tick
    \/ AddPrediction
    \/ GetStableEmotion
    \/ GetProgress
    \/ Reset

Spec == Init /\ [][Next]_vars

----------------------------------------------------------------------------
(* The scenario of the kiosk's configuration: a driver feeds a fixed number
   of predictions per label into EmotionBuffer(SCAN_DURATION, 8), sleeping
   between them, and asks for the verdict once all are fed. *)

\* how many predictions of each label the driver feeds
ScenarioCounts ==
    [e \in Labels |-> CASE e = "Happy" -> 6 [] e = "Sad" -> 4 [] OTHER -> 0]
ScenarioFeeds == ScenarioCounts["Happy"] + ScenarioCounts["Sad"] + ScenarioCounts["Neutral"]
\* the longest time from the first to the last prediction: 3.5 s
ScenarioSpan == SCAN_DURATION + ScenarioStep
\* the shortest time from the first to the last prediction: 70% of the window
ScenarioMinSpan == (SCAN_DURATION * SpanTenths) \div 10
\* the confidence of the i-th prediction (i from 0), labelled e, in percent:
\* within the 0.4 .. 0.85 the fallback classifier draws from
ScenarioConfidence(profile, i, e) ==
    CASE profile = "rising"   -> 40 + 5 * i
      [] profile = "falling"  -> 85 - 5 * i
      [] profile = "by_label" -> IF e = "Happy" THEN 80 ELSE 40

ScenarioInit ==
    /\ buffer_duration = SCAN_DURATION
    /\ min_predictions = KioskMinPredictions
    /\ predictions = <<>>
    /\ locked_emotion = NoneVal
    /\ locked_confidence = NoneVal
    /\ lock_time = NoneVal
    /\ now = 0
    /\ ret = [op |-> "init", val |-> NoneVal]
    /\ reset_from = NoneVal
    /\ fed \in {[NoFed EXCEPT !.profile = p] : p \in Profiles}
    /\ NoAudio /\ NoCamera /\ NoKiosk

\* the driver sleeps once between two predictions
ScenarioWait ==
    /\ fed.n >= 1
    /\ fed.n < ScenarioFeeds
    /\ now = fed.last
    /\ now + ScenarioStep - fed.first <= ScenarioSpan
    /\ now' = now + ScenarioStep
    /\ UNCHANGED <<bufferVars, reset_from, fed>>
    /\ UNCHANGED <<audioVars, cameraVars, kioskVars>>

\* the driver feeds one prediction, as long as the predictions still to come
\* can bring the feed to ScenarioMinSpan
ScenarioFeed ==
    /\ fed.n < ScenarioFeeds
    /\ fed.n >= 1 =>
           (now - fed.first) + (ScenarioFeeds - fed.n - 1) * ScenarioStep
               >= ScenarioMinSpan
    /\ \E e \in Labels :
           LET c == ScenarioConfidence(fed.profile, fed.n, e)
           IN  /\ fed.count[e] < ScenarioCounts[e]
               /\ add_prediction(e, c)
               /\ fed' = [fed EXCEPT !.n = @ + 1,
                                     !.first = IF fed.n = 0 THEN now ELSE @,
                                     !.last = now,
                                     !.count[e] = @ + 1,
                                     !.sum[e] = @ + c]
    /\ UNCHANGED reset_from
    /\ UNCHANGED <<audioVars, cameraVars, kioskVars>>

\* the driver asks for the verdict after the last prediction
ScenarioVerdict ==
    /\ fed.n = ScenarioFeeds
    /\ ret.op = "add_prediction"
    /\ get_stable_emotion
    /\ UNCHANGED <<reset_from, fed>>
    /\ UNCHANGED <<audioVars, cameraVars, kioskVars>>

ScenarioNext ==
    \/ ScenarioWait
    \/ ScenarioFeed
    \/ ScenarioVerdict

SpecScenario == ScenarioInit /\ [][ScenarioNext]_vars

----------------------------------------------------------------------------
(* Steps, as the properties below recognise them.  ret names the last call;
   a call leaves the clock alone and Tick leaves ret alone. *)

Locked == locked_emotion # NoneVal
CallStep(op) == ret'.op = op /\ now' = now
NoneResult == <<NoneVal, ZeroFrac>>

\* the three conditions of a verdict, stated on the buffered predictions
CountCondition == Len(predictions) >= min_predictions
SpanCondition ==
    /\ predictions # <<>>
    /\ (predictions[Len(predictions)].t - predictions[1].t) * 10 >= 7 * buffer_duration
AgreementCondition ==
    \E e \in Labels :
        /\ \A o \in Labels : CountOf(predictions, e) >= CountOf(predictions, o)
        /\ CountOf(predictions, e) * 10 >= 4 * Len(predictions)

(* C1: once a verdict is locked, every step other than reset() leaves the
   buffer and the locked (label, confidence) unchanged, and every
   get_stable_emotion() returns exactly that locked pair. *)
C1_LockOnce ==
    [][(Locked /\ ret'.op # "reset") =>
          /\ predictions' = predictions
          /\ locked_emotion' = locked_emotion
          /\ locked_confidence' = locked_confidence
          /\ (ret'.op = "get_stable_emotion" =>
                 ret'.val = <<locked_emotion, locked_confidence>>)]_vars

\* add_prediction() was called on a locked buffer, after the lock
C1_Witness ==
    /\ Locked
    /\ ret.op = "add_prediction"
    /\ now > lock_time

(* C2: on an unlocked buffer get_stable_emotion() returns a label and locks
   if and only if count >= min_predictions, span >= 70% of buffer_duration
   and the plurality count >= 40% of the count; otherwise it returns
   (none, 0) and the buffer stays unlocked. *)
C2_StableIff ==
    [][(~Locked /\ CallStep("get_stable_emotion")) =>
          LET ok == CountCondition /\ SpanCondition /\ AgreementCondition
          IN  /\ ok <=> ret'.val[1] # NoneVal
              /\ ok <=> locked_emotion' # NoneVal
              /\ ok => ret'.val[1] = locked_emotion'
              /\ ~ok => ret'.val = NoneResult
              /\ predictions' = predictions]_vars

\* a call refused for lack of agreement alone: count and span were enough
C2_Witness ==
    /\ ret.op = "get_stable_emotion"
    /\ ret.val = NoneResult
    /\ CountCondition
    /\ SpanCondition

(* C3 as claimed: with buffer_duration = 3.0 s and min_predictions = 8,
   feeding 10 predictions over 3.5 s, 6 "Happy" and 4 "Sad", makes
   get_stable_emotion() lock "Happy" with the mean of the confidences of all
   6 Happy predictions that were fed. *)
C3_Claimed ==
    (/\ ret.op = "get_stable_emotion"
     /\ fed.n = ScenarioFeeds
     /\ fed.last - fed.first = ScenarioSpan)
        => /\ ret.val[1] = "Happy"
           /\ FracEq(ret.val[2], Frac(fed.sum["Happy"], fed.count["Happy"]))

(* C3 amended: with buffer_duration = 3.0 s and min_predictions = 8, feeding
   10 predictions, 6 "Happy" and 4 "Sad", over at least 2.1 s and at most
   3.0 s makes get_stable_emotion() lock "Happy" with the mean of the
   confidences of all 6 Happy predictions that were fed. *)
C3_ScenarioWithinWindow ==
    (/\ ret.op = "get_stable_emotion"
     /\ fed.n = ScenarioFeeds
     /\ fed.last - fed.first <= buffer_duration
     /\ (fed.last - fed.first) * 10 >= 7 * buffer_duration)
        => /\ ret.val[1] = "Happy"
           /\ locked_emotion = "Happy"
           /\ FracEq(ret.val[2], Frac(fed.sum["Happy"], fed.count["Happy"]))
           /\ locked_confidence = ret.val[2]

\* the verdict asked after 10 predictions of rising confidence fed over
\* exactly 3.0 s, the first of them "Happy"
C3_Witness ==
    /\ ret.op = "get_stable_emotion"
    /\ fed.n = ScenarioFeeds
    /\ fed.last - fed.first = buffer_duration
    /\ fed.profile = "rising"
    /\ Len(predictions) = ScenarioFeeds
    /\ predictions[1].e = "Happy"
    /\ Locked

(* C4 as claimed: get_progress() returns 1.0 if and only if the buffer is
   locked. *)
C4_Claimed ==
    ret.op = "get_progress" => (FracEq(ret.val, OneFrac) <=> Locked)

(* C4 amended: get_progress() returns 1.0 on every locked buffer, and on an
   unlocked buffer exactly when its span has reached buffer_duration and its
   count has reached min_predictions. *)
C4_ProgressOne ==
    ret.op = "get_progress" =>
        (FracEq(ret.val, OneFrac) <=>
            \/ Locked
            \/ /\ CountCondition
               /\ predictions # <<>>
               /\ predictions[Len(predictions)].t - predictions[1].t >= buffer_duration)

\* get_progress() returned 1.0 on an unlocked buffer
C4_Witness ==
    /\ ret.op = "get_progress"
    /\ ~Locked
    /\ FracEq(ret.val, OneFrac)

(* C5 as claimed: while the buffer is unlocked, get_progress() never
   decreases across an add_prediction() call. *)
C5_Claimed ==
    [][(~Locked /\ CallStep("add_prediction")) => FracLeq(Progress, Progress')]_vars

(* C5 amended: while the buffer is unlocked, get_progress() never decreases
   across an add_prediction() call that evicts nothing, that is when every
   buffered entry has a timestamp >= now - buffer_duration. *)
C5_ProgressMonotone ==
    [][(/\ ~Locked
        /\ CallStep("add_prediction")
        /\ \A i \in 1..Len(predictions) : predictions[i].t >= now - buffer_duration)
          => FracLeq(Progress, Progress')]_vars

\* an insert that evicted nothing although the oldest entry was exactly
\* buffer_duration old
C5_Witness ==
    /\ ~Locked
    /\ ret.op = "add_prediction"
    /\ Len(predictions) >= 2
    /\ predictions[Len(predictions)].t = now
    /\ predictions[1].t = now - buffer_duration

(* C6: get_progress() returns 0.0 if and only if the buffer holds no
   predictions. *)
C6_ProgressZero ==
    ret.op = "get_progress" => (FracEq(ret.val, ZeroFrac) <=> predictions = <<>>)

\* get_progress() on an unlocked buffer whose only entry gives a span of zero
C6_Witness ==
    /\ ret.op = "get_progress"
    /\ ~Locked
    /\ Len(predictions) = 1
    /\ ~FracEq(ret.val, ZeroFrac)

(* C7: after add_prediction() on an unlocked buffer at time now, the new
   entry is the last element, no entry is older than now - buffer_duration,
   and the entries of the old buffer with timestamp >= now - buffer_duration
   are kept, in their order. *)
C7_InsertEvicts ==
    [][(~Locked /\ CallStep("add_prediction")) =>
          LET n == Len(predictions')
          IN  /\ n >= 1
              /\ predictions'[n].t = now
              /\ \A i \in 1..n : predictions'[i].t >= now - buffer_duration
              /\ SubSeq(predictions', 1, n - 1) =
                     SelectSeq(predictions,
                               LAMBDA p : p.t >= now - buffer_duration)]_vars

\* an insert late enough to evict, after which an older entry is still kept
C7_Witness ==
    /\ ret.op = "add_prediction"
    /\ ~Locked
    /\ Len(predictions) = 2
    /\ predictions[1].t > 0
    /\ predictions[1].t < now
    /\ predictions[2].t = now
    /\ now > buffer_duration

(* C8: in every reachable state the vote window holds no entry older than
   buffer_duration at the current time. *)
C8_Claimed ==
    \A i \in 1..Len(predictions) : predictions[i].t >= now - buffer_duration

(* C9: the locked confidence is the sum of the confidences of the buffered
   predictions carrying the locked label divided by their number. *)
C9_AvgPluralityOnly ==
    Locked =>
        LET idx == {i \in 1..Len(predictions) : predictions[i].e = locked_emotion}
        IN  /\ idx # {}
            /\ locked_confidence[2] = Cardinality(idx)
            /\ locked_confidence[1] = SumConf(predictions, locked_emotion)
            /\ (ret.op = "get_stable_emotion" => ret.val[2] = locked_confidence)

\* a verdict locked over a buffer that also holds another label with another
\* confidence
C9_Witness ==
    /\ Locked
    /\ ret.op = "get_stable_emotion"
    /\ \E i, j \in 1..Len(predictions) :
           /\ predictions[i].e = locked_emotion
           /\ predictions[j].e # locked_emotion
           /\ predictions[j].c # predictions[i].c

(* C10: reset() yields the initial state from any state: empty and unlocked,
   so that the next get_progress() is 0.0, the next get_stable_emotion() is
   (none, 0) and the next add_prediction() is accepted. *)
C10_ResetInitial ==
    [][/\ CallStep("reset") =>
             /\ predictions' = <<>>
             /\ locked_emotion' = NoneVal
             /\ locked_confidence' = NoneVal
             /\ lock_time' = NoneVal
       /\ (ret.op = "reset" /\ CallStep("get_progress")) => ret'.val = ZeroFrac
       /\ (ret.op = "reset" /\ CallStep("get_stable_emotion")) =>
             ret'.val = NoneResult /\ locked_emotion' = NoneVal
       /\ (ret.op = "reset" /\ CallStep("add_prediction")) =>
             Len(predictions') = 1 /\ predictions'[1].t = now]_vars

\* a prediction accepted after a reset() that found the buffer locked
C10_Witness ==
    /\ reset_from # NoneVal
    /\ ret.op = "add_prediction"
    /\ Len(predictions) = 1
    /\ predictions[1].t = now
    /\ ~Locked

\* the labels of the window, in order
LabelsOf(preds) == [i \in 1..Len(preds) |-> preds[i].e]
\* how often label e occurs in a sequence of labels
Occurrences(ls, e) == Cardinality({i \in 1..Len(ls) : ls[i] = e})
\* the labels of a sequence with the highest count
TopLabels(ls) ==
    {e \in Labels : /\ Occurrences(ls, e) > 0
                    /\ \A o \in Labels : Occurrences(ls, e) >= Occurrences(ls, o)}
\* the label of the highest count that occurs first in a sequence of labels
FirstTopLabel(ls) ==
    ls[CHOOSE i \in 1..Len(ls) :
           /\ ls[i] \in TopLabels(ls)
           /\ \A j \in 1..(i - 1) : ls[j] \notin TopLabels(ls)]

(* C11: the locked label is a function of the buffered sequence of labels
   alone: the label of the highest count and, when several labels share the
   highest count, the one of them that occurs first in the window. *)
C11_TieBreakFirst ==
    Locked => locked_emotion = FirstTopLabel(LabelsOf(predictions))

\* a verdict locked on a window in which two labels share the highest count:
\* "Sad", counted first, wins over a label that sorts before it
C11_Witness ==
    /\ Locked
    /\ ret.op = "get_stable_emotion"
    /\ Cardinality(TopLabels(LabelsOf(predictions))) >= 2
    /\ predictions[1].e = "Sad"
    /\ locked_emotion = "Sad"

----------------------------------------------------------------------------
(* The audio player (src/legacy/audio_player.py, class AudioPlayer).

   ap is the object, mixer the device behind pygame.mixer: whether it is
   initialised and the clips that sound on its channels.  A method is an
   operator from the object and the device before the call to the object and
   the device after it, the value it returns, the clip it started and whether
   it raised. *)

\* SpecAudio stops calling play() on a category that started MaxPlays clips
MaxPlays == 4

\* the clips _preload() found, per category, in sorted order
AudioClips ==
    [e \in Labels |-> CASE e = "Happy" -> <<"happy_0", "happy_1", "happy_2">>
                        [] e = "Sad"   -> <<"sad_0", "sad_1">>
                        [] OTHER       -> <<>>]
NoClips == [e \in Labels |-> <<>>]
\* constructor argument max_duration explored by SpecAudio, tenths of a second
MaxDurations == {2}

\* self.play_start_time = None
NoTime == -1

AudioPlayer(ok, max_duration, clips) ==
    [initialized |-> ok,
     max_duration |-> max_duration,
     play_start_time |-> NoTime,
     is_playing |-> FALSE,
     current_emotion |-> NoneVal,
     sounds |-> IF ok THEN clips ELSE NoClips,
     next_idx |-> [e \in Labels |-> 0]]

Mixer(ok) == [alive |-> ok, sounding |-> <<>>]

Outcome(a, m, v, c) == [ap |-> a, mixer |-> m, val |-> v, clip |-> c, raised |-> FALSE]
\* the call raised: the object and the device stay as the raise found them
Raised(a, m) == [ap |-> a, mixer |-> m, val |-> NoneVal, clip |-> NoneVal, raised |-> TRUE]

\* pygame.mixer.get_busy(): some channel is sounding
get_busy(m) == m.alive /\ m.sounding # <<>>

\* pygame.mixer.stop() raises pygame.error on a mixer that was quit
stop(a, m) ==
    IF a.initialized /\ ~m.alive
    THEN Raised(a, m)
    ELSE Outcome([a EXCEPT !.is_playing = FALSE,
                           !.play_start_time = NoTime,
                           !.current_emotion = NoneVal],
                 IF a.initialized THEN [m EXCEPT !.sounding = <<>>] ELSE m,
                 NoneVal, NoneVal)

\* mutant: the cursor of the category stays where it is
play_same_clip(a, m, emotion, t, raises) ==
    IF ~a.initialized \/ a.is_playing \/ a.sounds[emotion] = <<>> \/ raises \/ ~m.alive
    THEN Outcome(a, m, NoneVal, NoneVal)
    ELSE LET clip == a.sounds[emotion][a.next_idx[emotion] + 1]
         IN  Outcome([a EXCEPT !.play_start_time = t,
                               !.is_playing = TRUE,
                               !.current_emotion = emotion],
                     [m EXCEPT !.sounding = Append(@, clip)],
                     NoneVal, clip)

\* mutant: the early return on a live session is missing
play_while_live(a, m, emotion, t, raises) ==
    IF ~a.initialized \/ a.sounds[emotion] = <<>> \/ raises \/ ~m.alive
    THEN Outcome(a, m, NoneVal, NoneVal)
    ELSE LET clips == a.sounds[emotion]
             idx == a.next_idx[emotion]
             clip == clips[idx + 1]
         IN  Outcome([a EXCEPT !.next_idx[emotion] = (idx + 1) % Len(clips),
                               !.play_start_time = t,
                               !.is_playing = TRUE,
                               !.current_emotion = emotion],
                     [m EXCEPT !.sounding = Append(@, clip)],
                     NoneVal, clip)

\* mutant: the cursor is advanced before the clip is started
play_advances_first(a, m, emotion, t, raises) ==
    IF ~a.initialized THEN Outcome(a, m, NoneVal, NoneVal)
    ELSE IF a.is_playing THEN Outcome(a, m, NoneVal, NoneVal)
    ELSE IF a.sounds[emotion] = <<>> THEN Outcome(a, m, NoneVal, NoneVal)
    ELSE LET clips == a.sounds[emotion]
             idx == a.next_idx[emotion]
             clip == clips[idx + 1]
             a1 == [a EXCEPT !.next_idx[emotion] = (idx + 1) % Len(clips)]
         IN  IF raises \/ ~m.alive THEN Outcome(a1, m, NoneVal, NoneVal)
             ELSE Outcome([a1 EXCEPT !.play_start_time = t,
                                     !.is_playing = TRUE,
                                     !.current_emotion = emotion],
                          [m EXCEPT !.sounding = Append(@, clip)],
                          NoneVal, clip)

\* raises: clip.play() raises, which play() catches; it does on a mixer that was quit
play(a, m, emotion, t, raises) ==
    IF ~a.initialized THEN Outcome(a, m, NoneVal, NoneVal)
    ELSE IF a.is_playing THEN Outcome(a, m, NoneVal, NoneVal)
    ELSE IF a.sounds[emotion] = <<>> THEN Outcome(a, m, NoneVal, NoneVal)
    ELSE IF raises \/ ~m.alive THEN Outcome(a, m, NoneVal, NoneVal)
    ELSE LET clips == a.sounds[emotion]
             idx == a.next_idx[emotion]
             clip == clips[idx + 1]
         IN  Outcome([a EXCEPT !.next_idx[emotion] = (idx + 1) % Len(clips),
                               !.play_start_time = t,
                               !.is_playing = TRUE,
                               !.current_emotion = emotion],
                     [m EXCEPT !.sounding = Append(@, clip)],
                     NoneVal, clip)

\* mutant: at max_duration the flag is cleared but the device is not stopped
update_flag_only(a, m, t) ==
    IF ~a.is_playing THEN Outcome(a, m, FALSE, NoneVal)
    ELSE IF t - a.play_start_time >= a.max_duration
    THEN Outcome([a EXCEPT !.is_playing = FALSE], m, FALSE, NoneVal)
    ELSE IF ~get_busy(m)
    THEN Outcome([a EXCEPT !.is_playing = FALSE], m, FALSE, NoneVal)
    ELSE Outcome(a, m, TRUE, NoneVal)

\* mutant: the session is cut only once elapsed exceeds max_duration
update_strict(a, m, t) ==
    IF ~a.is_playing THEN Outcome(a, m, FALSE, NoneVal)
    ELSE IF t - a.play_start_time > a.max_duration
    THEN LET s == stop(a, m)
         IN  IF s.raised THEN s ELSE Outcome(s.ap, s.mixer, FALSE, NoneVal)
    ELSE IF ~get_busy(m)
    THEN Outcome([a EXCEPT !.is_playing = FALSE], m, FALSE, NoneVal)
    ELSE Outcome(a, m, TRUE, NoneVal)

update(a, m, t) ==
    IF ~a.is_playing THEN Outcome(a, m, FALSE, NoneVal)
    ELSE IF t - a.play_start_time >= a.max_duration
    THEN LET s == stop(a, m)
         IN  IF s.raised THEN s ELSE Outcome(s.ap, s.mixer, FALSE, NoneVal)
    ELSE IF ~get_busy(m)
    THEN Outcome([a EXCEPT !.is_playing = FALSE], m, FALSE, NoneVal)
    ELSE Outcome(a, m, TRUE, NoneVal)

\* pygame.mixer.quit() closes the device; _initialized stays as it was
cleanup(a, m) ==
    LET s == stop(a, m)
    IN  IF s.raised THEN s
        ELSE Outcome(s.ap,
                     IF a.initialized THEN [alive |-> FALSE, sounding |-> <<>>]
                     ELSE s.mixer,
                     NoneVal, NoneVal)

AudioInit ==
    /\ NoBuffer /\ NoCamera /\ NoKiosk
    /\ now = 0
    /\ \E ok \in BOOLEAN, d \in MaxDurations :
           /\ ap = AudioPlayer(ok, d, AudioClips)
           /\ mixer = Mixer(ok)
    /\ aret = [op |-> "init", arg |-> NoneVal, live |-> FALSE, val |-> NoneVal,
               clip |-> NoneVal, raised |-> FALSE, flip |-> FALSE]
    /\ started = [e \in Labels |-> <<>>]

\* a call of a method: the object and the device move to the outcome, aret
\* records the call (live: is_playing as the call found it)
Called(op, arg, o) ==
    /\ ap' = o.ap
    /\ mixer' = o.mixer
    /\ aret' = [op |-> op, arg |-> arg, live |-> ap.is_playing, val |-> o.val,
                clip |-> o.clip, raised |-> o.raised, flip |-> ~aret.flip]

AudioTick ==
    /\ now < MaxTime
    /\ now' = now + 1
    /\ UNCHANGED <<bufferOnlyVars, audioVars, cameraVars, kioskVars>>

Play ==
    /\ \E e \in Labels, raises \in BOOLEAN :
           /\ Len(started[e]) < MaxPlays
           /\ LET o == play(ap, mixer, e, now, raises)
              IN  /\ Called("play", e, o)
                  /\ started' = IF o.clip = NoneVal THEN started
                                ELSE [started EXCEPT ![e] = Append(@, o.clip)]
    /\ UNCHANGED <<bufferOnlyVars, now, cameraVars, kioskVars>>

Update ==
    /\ Called("update", NoneVal, update(ap, mixer, now))
    /\ UNCHANGED <<bufferOnlyVars, now, started, cameraVars, kioskVars>>

Stop ==
    /\ Called("stop", NoneVal, stop(ap, mixer))
    /\ UNCHANGED <<bufferOnlyVars, now, started, cameraVars, kioskVars>>

Cleanup ==
    /\ Called("cleanup", NoneVal, cleanup(ap, mixer))
    /\ UNCHANGED <<bufferOnlyVars, now, started, cameraVars, kioskVars>>

\* the device: a sounding clip reaches its end
ClipEnds ==
    /\ mixer.alive
    /\ \E i \in 1..Len(mixer.sounding) :
           mixer' = [mixer EXCEPT !.sounding =
                        SubSeq(@, 1, i - 1) \o SubSeq(@, i + 1, Len(@))]
    /\ UNCHANGED <<bufferOnlyVars, now, ap, aret, started, cameraVars, kioskVars>>

AudioNext ==
    \/ AudioTick
    \/ Play
    \/ Update
    \/ Stop
    \/ Cleanup
    \/ ClipEnds

SpecAudio == AudioInit /\ [][AudioNext]_vars

\* a step that is a call of method op
AudioCall(op) == aret'.flip # aret.flip /\ aret'.op = op
\* the player at rest: no session, no start time, no label, a silent device
AudioIdle ==
    /\ ~ap.is_playing
    /\ ap.play_start_time = NoTime
    /\ ap.current_emotion = NoneVal
    /\ mixer.sounding = <<>>

(* C12: the k-th clip a category starts (k from 0) is clip k mod n of its n
   clips in load order, and its cursor is the number of clips it has started
   modulo n, whatever else was called and whatever other categories played. *)
C12_RoundRobin ==
    \A e \in Labels :
        LET n == Len(ap.sounds[e])
        IN  IF n = 0
            THEN started[e] = <<>> /\ ap.next_idx[e] = 0
            ELSE /\ \A k \in 1..Len(started[e]) :
                        started[e][k] = ap.sounds[e][((k - 1) % n) + 1]
                 /\ ap.next_idx[e] = Len(started[e]) % n

\* Happy has wrapped around to its first clip, with plays of Sad, a stop and
\* an update in between
C12_Witness ==
    /\ Len(started["Happy"]) = 4
    /\ started["Happy"][4] = "happy_0"
    /\ Len(started["Sad"]) = 1
    /\ ap.next_idx["Happy"] = 1
    /\ ap.next_idx["Sad"] = 1

(* C13: a call of play() that finds a session live changes nothing: no clip
   is started, and the object (cursors, start time, current label, flag) and
   the device are as they were. *)
C13_PlayWhileLiveNoOp ==
    [][AudioCall("play") /\ ap.is_playing
         => /\ aret'.clip = NoneVal
            /\ ap' = ap
            /\ mixer' = mixer
            /\ started' = started]_vars

\* play("Sad") was called, without the device raising, while a Happy clip was
\* sounding in a live session
C13_Witness ==
    /\ aret.op = "play"
    /\ aret.arg = "Sad"
    /\ aret.live
    /\ ap.is_playing
    /\ ap.current_emotion = "Happy"
    /\ mixer.sounding = <<"happy_0">>

(* C14: at most one clip sounds at any time, and whenever is_playing is false
   the device is silent, so the clip play() starts never overlaps another. *)
C14_OneSession ==
    /\ Len(mixer.sounding) <= 1
    /\ ~ap.is_playing => mixer.sounding = <<>>

\* a second session is live, its clip the only one sounding, after the first
\* was cut at max_duration
C14_Witness ==
    /\ ap.is_playing
    /\ mixer.sounding = <<"sad_0">>
    /\ started["Happy"] = <<"happy_0">>
    /\ now - ap.play_start_time < ap.max_duration
    /\ now >= ap.max_duration

(* C15: update() returns true exactly when it finds the session live, less
   than max_duration old and the device busy, and the session stays live
   exactly then; at max_duration it leaves the device silent; and a session
   becomes live only by a play() that started a clip. *)
C15_UpdateEnds ==
    [][/\ AudioCall("update") =>
              LET still == /\ ap.is_playing
                           /\ now - ap.play_start_time < ap.max_duration
                           /\ get_busy(mixer)
              IN  /\ aret'.val = still
                  /\ ap'.is_playing = still
                  /\ (ap.is_playing /\ now - ap.play_start_time >= ap.max_duration)
                         => mixer'.sounding = <<>>
       /\ (ap'.is_playing /\ ~ap.is_playing)
              => AudioCall("play") /\ aret'.clip # NoneVal]_vars

\* update() found a live session exactly max_duration old, its clip still
\* sounding, and cut it
C15_Witness ==
    /\ aret.op = "update"
    /\ aret.live
    /\ aret.val = FALSE
    /\ ap.play_start_time = NoTime
    /\ mixer.sounding = <<>>
    /\ started["Happy"] = <<"happy_0">>
    /\ started["Sad"] = <<>>
    /\ now = ap.max_duration

(* C16, as claimed: a call of stop() or cleanup() raises no error and leaves
   the player at rest, also after cleanup() has released the device. *)
C16_Claimed ==
    aret.op \in {"stop", "cleanup"} => ~aret.raised /\ AudioIdle

----------------------------------------------------------------------------
(* The camera (src/legacy/camera.py, class Camera).

   cam is the object (the slot _frame, the flag _running, who holds _lock),
   reader the background thread in _reader_loop, caller the thread that
   constructed the camera and calls read_frame() and release(), device the
   capture behind self.cap.  A frame is the number of the device read that
   delivered it, whether somebody has written into its array since, and its
   width and height in pixels. *)

\* the device delivers at most MaxFrames frames
MaxFrames == 3

\* self._frame = None
NoFrame == [id |-> 0, marked |-> FALSE, w |-> 0, h |-> 0]
\* the i-th frame the device delivers, in the device's resolution
Frame(i) == [id |-> i, marked |-> FALSE, w |-> device.size[1], h |-> device.size[2]]

\* the resolutions (width, height) a device may have
FrameSizes == {<<640, 480>>, <<1280, 720>>, <<1300, 975>>, <<1301, 732>>, <<1920, 1080>>}

\* if w > 1300
ResizeAbove == 1300
\* new_w = 1280
ResizeWidth == 1280

\* the frame the reader goes on with: scale = 1280 / w; new_h = int(h * scale).
\* On FrameSizes the float product truncates to the exact quotient.
resize(f) ==
    IF f.w > ResizeAbove
    THEN [f EXCEPT !.w = ResizeWidth, !.h = (f.h * ResizeWidth) \div f.w]
    ELSE f

\* the constructor has started the reader and waits for the first frame
CameraInit ==
    /\ NoBuffer /\ NoAudio /\ NoKiosk
    /\ now = 0
    /\ cam = [frame |-> NoFrame, running |-> TRUE, lock |-> "free"]
    /\ reader = [pc |-> "loop", frame |-> NoFrame, published |-> 0]
    /\ caller = [pc |-> "init_wait", result |-> NoFrame, alias |-> FALSE,
                 latest |-> 0, released |-> FALSE]
    /\ \E size \in FrameSizes :
           device = [opened |-> TRUE, delivered |-> 0, size |-> size]

\* while self._running
ReaderLoop ==
    /\ reader.pc = "loop"
    /\ reader' = [reader EXCEPT !.pc = IF cam.running THEN "read" ELSE "done"]
    /\ UNCHANGED <<bufferOnlyVars, now, audioVars, cam, caller, device, kioskVars>>

\* cap.read() returns a frame.  On a capture released during the read the
\* outcome is undefined: it may still return a frame
ReaderReadFrame ==
    /\ reader.pc = "read"
    /\ device.delivered < MaxFrames
    /\ reader' = [reader EXCEPT !.pc = "lock", !.frame = resize(Frame(device.delivered + 1))]
    /\ device' = [device EXCEPT !.delivered = @ + 1]
    /\ UNCHANGED <<bufferOnlyVars, now, audioVars, cam, caller, kioskVars>>

\* mutant: a failed read empties the slot
ReaderReadFailsEmpties ==
    /\ reader.pc = "read"
    /\ reader' = [reader EXCEPT !.pc = "loop"]
    /\ cam' = [cam EXCEPT !.frame = NoFrame]
    /\ UNCHANGED <<bufferOnlyVars, now, audioVars, caller, device, kioskVars>>

\* cap.read() fails; the reader sleeps 0.01 s and tests _running again
ReaderReadFails ==
    /\ reader.pc = "read"
    /\ reader' = [reader EXCEPT !.pc = "loop"]
    /\ UNCHANGED <<bufferOnlyVars, now, audioVars, cam, caller, device, kioskVars>>

\* with self._lock: entered
ReaderLock ==
    /\ reader.pc = "lock"
    /\ cam.lock = "free"
    /\ cam' = [cam EXCEPT !.lock = "reader"]
    /\ reader' = [reader EXCEPT !.pc = "write"]
    /\ UNCHANGED <<bufferOnlyVars, now, audioVars, caller, device, kioskVars>>

\* self._frame = frame, and the lock is left
ReaderWrite ==
    /\ reader.pc = "write"
    /\ cam' = [cam EXCEPT !.frame = reader.frame, !.lock = "free"]
    /\ reader' = [reader EXCEPT !.pc = "loop", !.published = reader.frame.id]
    /\ UNCHANGED <<bufferOnlyVars, now, audioVars, caller, device, kioskVars>>

\* the constructor sees the first frame and returns
InitDone ==
    /\ caller.pc = "init_wait"
    /\ cam.frame # NoFrame
    /\ caller' = [caller EXCEPT !.pc = "idle"]
    /\ UNCHANGED <<bufferOnlyVars, now, audioVars, cam, reader, device, kioskVars>>

\* the constructor saw no frame within 5 s and raises; the reader runs on
InitTimeout ==
    /\ caller.pc = "init_wait"
    /\ cam.frame = NoFrame
    /\ caller' = [caller EXCEPT !.pc = "failed"]
    /\ UNCHANGED <<bufferOnlyVars, now, audioVars, cam, reader, device, kioskVars>>

\* read_frame(): with self._lock: entered
ReadFrameLock ==
    /\ caller.pc = "idle"
    /\ cam.lock = "free"
    /\ cam' = [cam EXCEPT !.lock = "caller"]
    /\ caller' = [caller EXCEPT !.pc = "read_frame"]
    /\ UNCHANGED <<bufferOnlyVars, now, audioVars, reader, device, kioskVars>>

\* mutant: read_frame() returns the slot's array itself
ReadFrameNoCopy ==
    /\ caller.pc = "read_frame"
    /\ cam' = [cam EXCEPT !.lock = "free"]
    /\ caller' = [caller EXCEPT !.pc = "idle", !.result = cam.frame,
                                !.alias = cam.frame # NoFrame,
                                !.latest = reader.published]
    /\ UNCHANGED <<bufferOnlyVars, now, audioVars, reader, device, kioskVars>>

\* read_frame(): the copy of the slot (None if it is None) is returned and the
\* lock is left; latest: the frame published last at that moment
ReadFrameCopy ==
    /\ caller.pc = "read_frame"
    /\ cam' = [cam EXCEPT !.lock = "free"]
    /\ caller' = [caller EXCEPT !.pc = "idle", !.result = cam.frame,
                                !.alias = FALSE,
                                !.latest = reader.published]
    /\ UNCHANGED <<bufferOnlyVars, now, audioVars, reader, device, kioskVars>>

\* the caller writes into the array read_frame() gave it
CallerDraws ==
    /\ caller.pc = "idle"
    /\ caller.result # NoFrame
    /\ ~caller.result.marked
    /\ caller' = [caller EXCEPT !.result.marked = TRUE]
    /\ cam' = IF caller.alias /\ cam.frame.id = caller.result.id
              THEN [cam EXCEPT !.frame.marked = TRUE]
              ELSE cam
    /\ UNCHANGED <<bufferOnlyVars, now, audioVars, reader, device, kioskVars>>

\* release(): self._running = False, then join if the thread is alive
ReleaseBegin ==
    /\ caller.pc = "idle"
    /\ cam' = [cam EXCEPT !.running = FALSE]
    /\ caller' = [caller EXCEPT !.pc = IF reader.pc # "done" THEN "join" ELSE "cap"]
    /\ UNCHANGED <<bufferOnlyVars, now, audioVars, reader, device, kioskVars>>

\* join(timeout=2.0) returns because the reader has left its loop
ReleaseJoined ==
    /\ caller.pc = "join"
    /\ reader.pc = "done"
    /\ caller' = [caller EXCEPT !.pc = "cap"]
    /\ UNCHANGED <<bufferOnlyVars, now, audioVars, cam, reader, device, kioskVars>>

\* join(timeout=2.0) returns after 2 s with the reader still inside a
\* cap.read() that has not returned
ReleaseJoinTimeout ==
    /\ caller.pc = "join"
    /\ reader.pc = "read"
    /\ caller' = [caller EXCEPT !.pc = "cap"]
    /\ UNCHANGED <<bufferOnlyVars, now, audioVars, cam, reader, device, kioskVars>>

\* if self.cap.isOpened(): self.cap.release(); release() returns
ReleaseCap ==
    /\ caller.pc = "cap"
    /\ device' = [device EXCEPT !.opened = FALSE]
    /\ caller' = [caller EXCEPT !.pc = "idle", !.released = TRUE]
    /\ UNCHANGED <<bufferOnlyVars, now, audioVars, cam, reader, kioskVars>>

CameraNext ==
    \/ ReaderLoop
    \/ ReaderReadFrame
    \/ ReaderReadFails
    \/ ReaderLock
    \/ ReaderWrite
    \/ InitDone
    \/ InitTimeout
    \/ ReadFrameLock
    \/ ReadFrameCopy
    \/ CallerDraws
    \/ ReleaseBegin
    \/ ReleaseJoined
    \/ ReleaseJoinTimeout
    \/ ReleaseCap

SpecCamera == CameraInit /\ [][CameraNext]_vars

\* the steps of the reader thread
ReaderStep ==
    ReaderLoop \/ ReaderReadFrame \/ ReaderReadFails \/ ReaderLock \/ ReaderWrite

\* the steps the caller takes without anything outside the program asking
\* for them: the constructor's wait, the read_frame() of every iteration of
\* run(), and a release() once it has begun
CallerStep ==
    \/ InitDone \/ InitTimeout
    \/ ReadFrameLock \/ ReadFrameCopy
    \/ ReleaseJoined \/ ReleaseJoinTimeout \/ ReleaseCap

\* run(): `if frame is None: break`, and _cleanup() calls release().
\* latest > 0: a read_frame() has returned
BreakOnNoFrame ==
    /\ caller.latest > 0
    /\ caller.result = NoFrame
    /\ ReleaseBegin

\* both threads are scheduled again and again: the reader keeps looping
\* (a failed read is followed by a sleep of 0.01 s), run() calls read_frame()
\* on every iteration and leaves its loop whenever the frame it got is None
\* (strong fairness: the test follows every read_frame()).  Nothing makes
\* the user press q or the device deliver a frame.
SpecCameraFair ==
    /\ SpecCamera
    /\ WF_vars(ReaderStep)
    /\ WF_vars(CallerStep)
    /\ SF_vars(BreakOnNoFrame)

(* C17: read_frame() returns the frame that was published last when it took
   its copy, and none only if none was published by then; the slot always
   holds the frame published last exactly as the reader published it, so
   what the caller does to its copy never shows in it; and the reader holds
   the lock only around the slot's assignment, never in a device read. *)
C17_LatestCopy ==
    /\ caller.result.id = caller.latest
    /\ cam.frame = IF reader.published = 0 THEN NoFrame
                   ELSE resize(Frame(reader.published))
    /\ cam.lock = "reader" => reader.pc = "write"
    /\ cam.lock = "caller" => caller.pc = "read_frame"

\* the caller has written into its copy of frame 2 while the reader, inside a
\* device read, has published frame 3 since
C17_Witness ==
    /\ caller.result = [resize(Frame(2)) EXCEPT !.marked = TRUE]
    /\ cam.frame = resize(Frame(3))
    /\ caller.pc = "idle"
    /\ ~caller.released

(* C18, as claimed: once release() has returned, the reader has left its
   loop, so it reads the device and writes the slot no more, and the device
   is released. *)
C18_Claimed ==
    caller.released => reader.pc = "done" /\ ~device.opened

----------------------------------------------------------------------------
(* The kiosk (src/legacy/main.py, class EmotionKiosk).

   One step is one iteration of run(), taken from the sleep that ends the
   iteration before it: the sleep, the handler of the current state on what
   the detector and the classifier gave, then the key.  The first iteration
   follows the constructor at once.  All time.time() reads of one iteration
   give now.  The
   camera has delivered its first frame, so read_frame() gives a frame.  A
   handler is an operator on the world: the kiosk's own fields with the
   buffer eb, the player ap, its mixer and the history of started clips,
   which SpecKiosk keeps for the present stay in RESULT only.

   The code only ever subtracts two readings of the clock, so SpecKiosk
   keeps the clock relative: now stays at Horizon, and a sleep makes every
   stored timestamp older by its length.  A timestamp stops getting older
   where no comparison of the code can tell its age from a greater one:
   t_state just past the duration dt() is compared with in the state the
   kiosk is in, face_lost_t just past FACE_TIMEOUT, play_start_time at
   max_duration, and the timestamps of the buffer at Horizon, an age no
   prediction reaches before it is dropped. *)

\* the oldest age of a timestamp SpecKiosk tells apart
Horizon == 130
\* the classifier returns none on at most MaxMisses iterations of a run
MaxMisses == 1
\* the history tick.at counts the time since the first iteration up to MaxSince
MaxSince == 16
\* the history tick.scan counts the iterations of a scan up to MaxScan
MaxScan == 23

\* elapsed > 0.8 in _detecting, tenths of a second
DetectingDelay == 8
\* time.time() - self.face_lost_t > 1.0 in _detecting
DetectingTolerance == 10
FACE_TIMEOUT == 20
RESULT_DURATION == 120
RESET_DURATION == 25
\* self.dt() < 0.5 in _result
PlayWindow == 5
\* AudioPlayer(AUDIO_DIR, max_duration=10.0)
KioskMaxDuration == 100

\* how long one iteration of run() takes, per run: 0.1 s, 0.4 s or 0.5 s (at
\* least the 1/30 s of TARGET_FPS)
SteadyPeriods == {1}
TickPeriods == SteadyPeriods \cup {4, 5}
\* the clips _preload() found in the kiosk's AUDIO_DIR
KioskClips ==
    [e \in Labels |-> CASE e = "Happy" -> <<"happy_0", "happy_1">>
                        [] e = "Sad"   -> <<"sad_0">>
                        [] OTHER       -> <<>>]
\* what the classifier returns on a crop: a label with its confidence, or none
KioskOutputs == {<<"Happy", 80>>, <<"Sad", 40>>, <<NoneVal, 0>>}
\* the keys cv2.waitKey gives that SpecKiosk explores: none and reset
Keys == {NoneVal, "r"}

States == {"IDLE", "DETECTING", "SCANNING", "RESULT", "RESET"}

EmptyBuffer ==
    [predictions |-> <<>>, locked_emotion |-> NoneVal,
     locked_confidence |-> NoneVal, lock_time |-> NoTime]

\* self.eb.add_prediction(emotion, confidence) at time t
eb_add_prediction(eb, emotion, confidence, t) ==
    IF eb.locked_emotion # NoneVal THEN eb
    ELSE [eb EXCEPT !.predictions =
             Trim(Append(@, [t |-> t, e |-> emotion, c |-> confidence]),
                  t - SCAN_DURATION)]

\* self.eb.get_stable_emotion() at time t: the buffer after it and the label
\* and confidence it returns
eb_get_stable_emotion(eb, t) ==
    IF eb.locked_emotion # NoneVal
    THEN [eb |-> eb, emotion |-> eb.locked_emotion, confidence |-> eb.locked_confidence]
    ELSE IF \/ ~EnoughCount(eb.predictions, KioskMinPredictions)
            \/ ~EnoughSpan(eb.predictions, SCAN_DURATION)
            \/ ~EnoughAgreement(eb.predictions)
    THEN [eb |-> eb, emotion |-> NoneVal, confidence |-> ZeroFrac]
    ELSE LET majority_emotion == MostCommon(eb.predictions)
             avg_confidence == AvgConfidence(eb.predictions, majority_emotion)
         IN  [eb |-> [eb EXCEPT !.locked_emotion = majority_emotion,
                                !.locked_confidence = avg_confidence,
                                !.lock_time = t],
              emotion |-> majority_emotion, confidence |-> avg_confidence]

\* the duration dt() is compared with in a state; it is not called in
\* IDLE and SCANNING
ClockHorizon(state) ==
    CASE state = "DETECTING" -> DetectingDelay
      [] state = "RESULT"    -> RESULT_DURATION
      [] state = "RESET"     -> RESET_DURATION
      [] OTHER               -> 0

\* the timestamp ts after d more tenths of a second have passed, its age
\* going no further than h
Older(ts, d, h) ==
    IF ts = NoTime THEN NoTime
    ELSE IF now - ts >= h THEN ts
    ELSE now - Min(now - ts + d, h)

\* the world after time.sleep: d tenths of a second later
Slept(w, d) ==
    [w EXCEPT !.t_state = Older(@, d, ClockHorizon(w.state) + 1),
              !.face_lost_t = Older(@, d, FACE_TIMEOUT + 1),
              !.eb.lock_time = Older(@, d, Horizon),
              !.eb.predictions =
                  [i \in 1..Len(@) |-> [@[i] EXCEPT !.t = Older(@, d, Horizon)]],
              !.ap.play_start_time = Older(@, d, w.ap.max_duration)]

go(w, s, t) ==
    [w EXCEPT !.prev_state = w.state, !.state = s, !.t_state = t,
              !.face_lost_t = NoTime]

dt(w, t) == t - w.t_state

\* the face-loss test that opens _detecting and _scanning: the handler
\* returns to IDLE once the bbox has been absent for more than tolerance
FaceLost(w, bbox, t, tolerance) ==
    /\ ~bbox
    /\ w.face_lost_t # NoTime
    /\ t - w.face_lost_t > tolerance

\* the face-lost timestamp after that test, and the smoother after update(bbox)
Tracked(w, bbox, t) ==
    [w EXCEPT !.face_lost_t = IF bbox THEN NoTime
                              ELSE IF @ = NoTime THEN t ELSE @,
              !.sbox = @ \/ bbox]

\* mutant: a face takes the kiosk from IDLE straight into SCANNING
idle_to_scanning(w, bbox, t) ==
    IF bbox THEN go([w EXCEPT !.sbox = FALSE], "SCANNING", t) ELSE w

idle(w, bbox, t) ==
    IF bbox THEN go([w EXCEPT !.sbox = FALSE], "DETECTING", t) ELSE w

\* mutant: scanning begins as soon as 0.8 s are reached
detecting_at_threshold(w, bbox, t) ==
    IF FaceLost(w, bbox, t, DetectingTolerance) THEN go(w, "IDLE", t)
    ELSE LET w1 == Tracked(w, bbox, t)
         IN  IF dt(w1, t) >= DetectingDelay
             THEN go([w1 EXCEPT !.eb = EmptyBuffer], "SCANNING", t)
             ELSE w1

\* mutant: scanning begins on the buffer as it is
detecting_keeps_buffer(w, bbox, t) ==
    IF FaceLost(w, bbox, t, DetectingTolerance) THEN go(w, "IDLE", t)
    ELSE LET w1 == Tracked(w, bbox, t)
         IN  IF dt(w1, t) > DetectingDelay
             THEN go(w1, "SCANNING", t)
             ELSE w1

detecting(w, bbox, t) ==
    IF FaceLost(w, bbox, t, DetectingTolerance) THEN go(w, "IDLE", t)
    ELSE LET w1 == Tracked(w, bbox, t)
         IN  IF dt(w1, t) > DetectingDelay
             THEN go([w1 EXCEPT !.eb = EmptyBuffer], "SCANNING", t)
             ELSE w1

\* mutant: without a crop the classifier's last answer is fed again
scanning_reuses_crop(w, bbox, out, t) ==
    IF FaceLost(w, bbox, t, FACE_TIMEOUT) THEN go(w, "IDLE", t)
    ELSE LET w1 == Tracked(w, bbox, t)
             last == w1.eb.predictions[Len(w1.eb.predictions)]
             fed1 == IF bbox /\ out[1] # NoneVal
                     THEN eb_add_prediction(w1.eb, out[1], out[2], t)
                     ELSE IF w1.eb.predictions # <<>>
                     THEN eb_add_prediction(w1.eb, last.e, last.c, t)
                     ELSE w1.eb
             stable == eb_get_stable_emotion(fed1, t)
             w2 == [w1 EXCEPT !.eb = stable.eb]
         IN  IF stable.emotion # NoneVal
             THEN go([w2 EXCEPT !.emotion = stable.emotion,
                                !.confidence = stable.confidence],
                     "RESULT", t)
             ELSE w2

\* mutant: an iteration without a label empties the vote window
scanning_drops_window(w, bbox, out, t) ==
    IF FaceLost(w, bbox, t, FACE_TIMEOUT) THEN go(w, "IDLE", t)
    ELSE LET w1 == Tracked(w, bbox, t)
             fed1 == IF bbox /\ out[1] # NoneVal
                     THEN eb_add_prediction(w1.eb, out[1], out[2], t)
                     ELSE EmptyBuffer
             stable == eb_get_stable_emotion(fed1, t)
             w2 == [w1 EXCEPT !.eb = stable.eb]
         IN  IF stable.emotion # NoneVal
             THEN go([w2 EXCEPT !.emotion = stable.emotion,
                                !.confidence = stable.confidence],
                     "RESULT", t)
             ELSE w2

\* mutant: the verdict is shown without the buffer keeping its lock
scanning_without_lock(w, bbox, out, t) ==
    IF FaceLost(w, bbox, t, FACE_TIMEOUT) THEN go(w, "IDLE", t)
    ELSE LET w1 == Tracked(w, bbox, t)
             fed1 == IF bbox /\ out[1] # NoneVal
                     THEN eb_add_prediction(w1.eb, out[1], out[2], t)
                     ELSE w1.eb
             stable == eb_get_stable_emotion(fed1, t)
             w2 == [w1 EXCEPT !.eb = fed1]
         IN  IF stable.emotion # NoneVal
             THEN go([w2 EXCEPT !.emotion = stable.emotion,
                                !.confidence = stable.confidence],
                     "RESULT", t)
             ELSE w2

\* mutant: the scan is given up as soon as the bbox has been missing for
\* FACE_TIMEOUT
scanning_at_timeout(w, bbox, out, t) ==
    IF ~bbox /\ w.face_lost_t # NoTime /\ t - w.face_lost_t >= FACE_TIMEOUT
    THEN go(w, "IDLE", t)
    ELSE LET w1 == Tracked(w, bbox, t)
             fed1 == IF bbox /\ out[1] # NoneVal
                     THEN eb_add_prediction(w1.eb, out[1], out[2], t)
                     ELSE w1.eb
             stable == eb_get_stable_emotion(fed1, t)
             w2 == [w1 EXCEPT !.eb = stable.eb]
         IN  IF stable.emotion # NoneVal
             THEN go([w2 EXCEPT !.emotion = stable.emotion,
                                !.confidence = stable.confidence],
                     "RESULT", t)
             ELSE w2

\* out: what self.ec.predict(crop) returns; the crop is there when the bbox is
scanning(w, bbox, out, t) ==
    IF FaceLost(w, bbox, t, FACE_TIMEOUT) THEN go(w, "IDLE", t)
    ELSE LET w1 == Tracked(w, bbox, t)
             fed1 == IF bbox /\ out[1] # NoneVal
                     THEN eb_add_prediction(w1.eb, out[1], out[2], t)
                     ELSE w1.eb
             stable == eb_get_stable_emotion(fed1, t)
             w2 == [w1 EXCEPT !.eb = stable.eb]
         IN  IF stable.emotion # NoneVal
             THEN go([w2 EXCEPT !.emotion = stable.emotion,
                                !.confidence = stable.confidence],
                     "RESULT", t)
             ELSE w2

\* the world after a call on the player with outcome o
Heard(w, o) ==
    [w EXCEPT !.ap = o.ap, !.mixer = o.mixer,
              !.started = IF o.clip = NoneVal THEN @
                          ELSE [@ EXCEPT ![w.emotion] = Append(@, o.clip)]]

\* mutant: the result is left as soon as RESULT_DURATION is reached
result_at_threshold(w, raises, t) ==
    LET w1 == IF dt(w, t) < PlayWindow
              THEN Heard(w, play(w.ap, w.mixer, w.emotion, t, raises))
              ELSE w
        w2 == Heard(w1, update(w1.ap, w1.mixer, t))
    IN  IF dt(w2, t) >= RESULT_DURATION
        THEN go(Heard(w2, stop(w2.ap, w2.mixer)), "RESET", t)
        ELSE w2

result(w, raises, t) ==
    LET w1 == IF dt(w, t) < PlayWindow
              THEN Heard(w, play(w.ap, w.mixer, w.emotion, t, raises))
              ELSE w
        w2 == Heard(w1, update(w1.ap, w1.mixer, t))
    IN  IF dt(w2, t) > RESULT_DURATION
        THEN go(Heard(w2, stop(w2.ap, w2.mixer)), "RESET", t)
        ELSE w2

\* mutant: the reset leaves the verdict where it is
full_reset_keeps_verdict(w, t) ==
    LET w1 == Heard([w EXCEPT !.eb = EmptyBuffer], stop(w.ap, w.mixer))
    IN  go([w1 EXCEPT !.sbox = FALSE], "IDLE", t)

\* mutant: the reset leaves the audio alone
full_reset_keeps_audio(w, t) ==
    go([w EXCEPT !.eb = EmptyBuffer, !.sbox = FALSE, !.emotion = NoneVal,
                 !.confidence = ZeroFrac],
       "IDLE", t)

full_reset(w, t) ==
    LET w1 == Heard([w EXCEPT !.eb = EmptyBuffer], stop(w.ap, w.mixer))
    IN  go([w1 EXCEPT !.sbox = FALSE, !.emotion = NoneVal, !.confidence = ZeroFrac],
           "IDLE", t)

reset_state(w, t) ==
    IF dt(w, t) > RESET_DURATION THEN full_reset(w, t) ELSE w

\* handlers[self.state](frame, bbox, crop, nf)
Handled(w, bbox, out, raises, t) ==
    CASE w.state = "IDLE"      -> idle(w, bbox, t)
      [] w.state = "DETECTING" -> detecting(w, bbox, t)
      [] w.state = "SCANNING"  -> scanning(w, bbox, out, t)
      [] w.state = "RESULT"    -> result(w, raises, t)
      [] w.state = "RESET"     -> reset_state(w, t)

\* the world the variables hold
World ==
    [state |-> kiosk.state, prev_state |-> kiosk.prev_state,
     t_state |-> kiosk.t_state, face_lost_t |-> kiosk.face_lost_t,
     emotion |-> kiosk.emotion, confidence |-> kiosk.confidence,
     sbox |-> kiosk.sbox, running |-> kiosk.running,
     eb |-> [predictions |-> predictions, locked_emotion |-> locked_emotion,
             locked_confidence |-> locked_confidence, lock_time |-> lock_time],
     ap |-> ap, mixer |-> mixer,
     started |-> IF kiosk.state = "RESULT" THEN started ELSE [e \in Labels |-> <<>>]]

\* the variables take the world w
Becomes(w) ==
    /\ kiosk' = [state |-> w.state, prev_state |-> w.prev_state,
                 t_state |-> w.t_state, face_lost_t |-> w.face_lost_t,
                 emotion |-> w.emotion, confidence |-> w.confidence,
                 sbox |-> w.sbox, running |-> w.running]
    /\ predictions' = w.eb.predictions
    /\ locked_emotion' = w.eb.locked_emotion
    /\ locked_confidence' = w.eb.locked_confidence
    /\ lock_time' = w.eb.lock_time
    /\ ap' = w.ap
    /\ mixer' = w.mixer
    /\ started' = w.started

KioskInit ==
    /\ NoCamera
    /\ now = Horizon
    /\ buffer_duration = SCAN_DURATION
    /\ min_predictions = KioskMinPredictions
    /\ predictions = <<>>
    /\ locked_emotion = NoneVal
    /\ locked_confidence = NoneVal
    /\ lock_time = NoTime
    /\ ret = NoneVal
    /\ reset_from = NoneVal
    /\ fed = NoneVal
    /\ ap = AudioPlayer(TRUE, KioskMaxDuration, KioskClips)
    /\ mixer = Mixer(TRUE)
    /\ aret = NoneVal
    /\ started = [e \in Labels |-> <<>>]
    /\ kiosk = [state |-> "IDLE", prev_state |-> NoneVal, t_state |-> Horizon,
                face_lost_t |-> NoTime, emotion |-> NoneVal,
                confidence |-> ZeroFrac, sbox |-> FALSE, running |-> TRUE]
    /\ \E p \in TickPeriods :
           tick = [ran |-> FALSE, period |-> p, from |-> "IDLE", bbox |-> FALSE,
                   out |-> <<NoneVal, 0>>, key |-> NoneVal, always_bbox |-> TRUE,
                   at |-> 0, misses |-> 0, lost |-> NoTime, lost_in |-> NoneVal,
                   raised |-> NoneVal, left |-> NoneVal, stale |-> FALSE,
                   scan |-> 0, scan_clean |-> TRUE, beat |-> 0]

\* within one scan the classifier keeps to one label
OneLabel(out) ==
    IF out[1] = NoneVal \/ predictions = <<>> THEN TRUE
    ELSE out[1] = predictions[1].e

\* how long _detecting and _scanning put up with a missing bbox
Tolerance(state) ==
    IF state = "DETECTING" THEN DetectingTolerance ELSE FACE_TIMEOUT

\* an absence begins with this iteration: it has no bbox and follows one that
\* had a bbox or the reset key
AbsenceBegins(bbox, key) ==
    ~bbox /\ key = NoneVal /\ (~tick.ran \/ tick.bbox \/ tick.key = "r")

\* an absence that began in DETECTING or SCANNING goes on with this
\* iteration; it is followed until it has outlasted the tolerance of the state
\* it began in
AbsenceGoesOn(bbox, key) ==
    /\ ~bbox /\ key = NoneVal /\ ~AbsenceBegins(bbox, key)
    /\ tick.lost # NoTime
    /\ tick.lost <= Tolerance(tick.lost_in)

\* at the periods of SteadyPeriods the visitor stays in view while the
\* kiosk is in DETECTING and SCANNING, and gets a label from every crop
Steady(bbox, out) ==
    (tick.period \in SteadyPeriods /\ kiosk.state \in {"DETECTING", "SCANNING"})
        => /\ bbox
           /\ kiosk.state = "SCANNING" => out[1] # NoneVal

\* the scan under way has had a bbox, a label and no key on each of its
\* iterations, this one included
CleanScan(bbox, out, key) ==
    /\ bbox /\ out[1] # NoneVal /\ key = NoneVal
    /\ tick.from = "SCANNING" => tick.scan_clean

\* the history of the iterations: what this one was given, whether every
\* one so far had a bbox and no key, when it ran, for how long and since
\* which state the bbox has been missing on every iteration, whether it
\* found the kiosk in DETECTING with predictions left in the buffer, and how
\* many iterations the scan under way has had if each of them had a bbox, a
\* label and no key; at the steady rate also the parity of the number of
\* iterations, so that each of them is a step
Ticked(bbox, out, key) ==
    [ran |-> TRUE, period |-> tick.period, from |-> kiosk.state,
     bbox |-> bbox, out |-> out, key |-> key,
     always_bbox |-> tick.always_bbox /\ bbox /\ key = NoneVal,
     at |-> IF ~tick.ran THEN 0 ELSE Min(tick.at + tick.period, MaxSince),
     misses |-> IF bbox /\ out[1] = NoneVal /\ kiosk.state = "SCANNING"
                THEN tick.misses + 1 ELSE tick.misses,
     lost |-> IF AbsenceBegins(bbox, key) /\ kiosk.state \in {"DETECTING", "SCANNING"}
              THEN 0
              ELSE IF AbsenceGoesOn(bbox, key) THEN tick.lost + tick.period
              ELSE NoTime,
     lost_in |-> IF AbsenceBegins(bbox, key) /\ kiosk.state \in {"DETECTING", "SCANNING"}
                 THEN kiosk.state
                 ELSE IF AbsenceGoesOn(bbox, key) THEN tick.lost_in
                 ELSE NoneVal,
     raised |-> NoneVal, left |-> NoneVal,
     stale |-> kiosk.state = "DETECTING" /\ predictions # <<>>,
     scan |-> IF kiosk.state = "SCANNING" /\ CleanScan(bbox, out, key)
              THEN Min(tick.scan + 1, MaxScan) ELSE 0,
     scan_clean |-> kiosk.state = "SCANNING" => CleanScan(bbox, out, key),
     beat |-> IF tick.period \in SteadyPeriods THEN (tick.beat + 1) % 2 ELSE 0]

\* one iteration of run(): sleep, handler, key
KioskTick ==
    /\ kiosk.running
    /\ tick.left = NoneVal
    /\ \E bbox \in BOOLEAN, out \in KioskOutputs, raises \in BOOLEAN, key \in Keys :
           /\ OneLabel(out)
           /\ Steady(bbox, out)
           /\ IF bbox /\ kiosk.state = "SCANNING"
              THEN out[1] = NoneVal => tick.misses < MaxMisses
              ELSE out = <<NoneVal, 0>>
           /\ (kiosk.state # "RESULT") => ~raises
           /\ LET w0 == IF tick.ran THEN Slept(World, tick.period) ELSE World
                  w1 == Handled(w0, bbox, out, raises, now)
                  w2 == IF key = "r" THEN full_reset(w1, now) ELSE w1
              IN  Becomes(w2)
           /\ tick' = Ticked(bbox, out, key)
    /\ UNCHANGED <<buffer_duration, min_predictions, now, ret, reset_from, fed, aret,
                   cameraVars>>

\* the device: the sounding clip reaches its end between two iterations
KioskClipEnds ==
    /\ kiosk.running
    /\ mixer.sounding # <<>>
    /\ mixer' = [mixer EXCEPT !.sounding = <<>>]
    /\ UNCHANGED <<bufferOnlyVars, now, ap, aret, started, cameraVars, kioskVars>>

KioskNext ==
    \/ KioskTick
    \/ KioskClipEnds

SpecKiosk == KioskInit /\ [][KioskNext]_vars

\* the kiosk at the steady rate: the period is the 0.1 s of ScanPeriods, the
\* one of the model that is nearest to the 1/30 s of TARGET_FPS
ScanPeriods == SteadyPeriods

ScanInit == KioskInit /\ tick.period \in ScanPeriods

\* run() goes on iterating: `while self.running`, and nothing clears
\* self.running.  KioskTick is enabled in every state of the kiosk and at
\* the steady rate each iteration is a step, so that WF_vars(KioskTick) is
\* this: iterations keep coming
Iterating == []<><<KioskTick>>_vars

SpecScan == ScanInit /\ [][KioskNext]_vars /\ Iterating

\* the calls of one iteration that SpecRun lets raise: self.fd.detect(frame)
\* and, in _scanning, self.ec.predict(crop)
Raising == {"detect", "predict"}

\* one iteration of run() in which op raises: nothing in run() catches it, the
\* exception leaves the loop through `finally: self._cleanup()`.  detect()
\* raises before the handler is called; predict() raises in _scanning, which
\* by then has cleared the face-lost timestamp for the bbox it was given.
KioskRaises ==
    /\ kiosk.running
    /\ tick.left = NoneVal
    /\ tick.ran
    /\ \E op \in Raising :
           /\ op = "predict" => kiosk.state = "SCANNING"
           /\ LET w0 == Slept(World, tick.period)
                  w1 == IF op = "predict" THEN [w0 EXCEPT !.face_lost_t = NoTime]
                        ELSE w0
              IN  Becomes(Heard(w1, cleanup(w1.ap, w1.mixer)))
           /\ tick' = [tick EXCEPT !.raised = op, !.left = "exception"]
    /\ UNCHANGED <<buffer_duration, min_predictions, now, ret, reset_from, fed, aret,
                   cameraVars>>

RunNext ==
    \/ KioskNext
    \/ KioskRaises

SpecRun == KioskInit /\ [][RunNext]_vars

\* the transitions of the kiosk's state table
Table ==
    {<<"IDLE", "DETECTING">>, <<"DETECTING", "IDLE">>, <<"DETECTING", "SCANNING">>,
     <<"SCANNING", "IDLE">>, <<"SCANNING", "RESULT">>, <<"RESULT", "RESET">>,
     <<"RESET", "IDLE">>}

(* C19: the kiosk starts in IDLE, and every iteration that changes its state
   takes it along a transition of the table or, on the reset key, to IDLE. *)
C19_TableOnly ==
    /\ kiosk.state = "IDLE"
    /\ [][kiosk'.state # kiosk.state
            => \/ <<kiosk.state, kiosk'.state>> \in Table
               \/ tick'.key = "r" /\ kiosk'.state = "IDLE"]_vars

\* back in IDLE from RESET by the timeout, after a whole visit
C19_Witness ==
    /\ kiosk.state = "IDLE"
    /\ kiosk.prev_state = "RESET"
    /\ tick.from = "RESET"
    /\ tick.key = NoneVal

(* C20: with a bbox on every iteration from the first (and no key), the first
   iteration, at time 0, takes the kiosk to DETECTING; it is left there by
   every iteration up to 0.8 s after that, and the first iteration later
   than 0.8 s after it takes it to SCANNING.  (tick.at is the time of the
   last iteration.) *)
C20_DetectingDelay ==
    (tick.ran /\ tick.always_bbox) =>
        /\ tick.at <= DetectingDelay
               => /\ kiosk.state = "DETECTING"
                  /\ now - kiosk.t_state = tick.at
        /\ (tick.at > DetectingDelay /\ tick.at - tick.period <= DetectingDelay)
               => /\ kiosk.state = "SCANNING"
                  /\ tick.from = "DETECTING"
                  /\ kiosk.t_state = now

\* the iteration at exactly 0.8 s left the kiosk in DETECTING, the next one,
\* at 1.2 s, took it to SCANNING
C20_Witness ==
    /\ tick.always_bbox
    /\ tick.period = 4
    /\ tick.at = 12
    /\ tick.from = "DETECTING"
    /\ kiosk.state = "SCANNING"

(* C21: the iteration that takes the kiosk from DETECTING to SCANNING was
   given a bbox: on an iteration without a bbox the kiosk never enters
   SCANNING. *)
C21_Claimed ==
    [][(kiosk.state = "DETECTING" /\ kiosk'.state = "SCANNING") => tick'.bbox]_vars

(* C22: an absence of the bbox that begins in DETECTING is put up with while
   it has lasted at most 1.0 s (the kiosk does not return to IDLE), and once
   it has lasted longer than 1.0 s on every iteration the kiosk is back in
   IDLE, not in SCANNING.  A bbox ends the absence, the next one is timed
   from its own first iteration. *)
C22_Claimed ==
    tick.lost_in = "DETECTING" =>
        /\ tick.lost <= DetectingTolerance => kiosk.state # "IDLE"
        /\ tick.lost > DetectingTolerance => kiosk.state = "IDLE"

(* C23 as stated: an absence of the bbox that begins in SCANNING leaves the
   kiosk in SCANNING while it is shorter than FACE_TIMEOUT, and the kiosk is
   back in IDLE when it has lasted exactly FACE_TIMEOUT, or longer. *)
C23_Claimed ==
    tick.lost_in = "SCANNING" =>
        /\ tick.lost < FACE_TIMEOUT => kiosk.state = "SCANNING"
        /\ tick.lost >= FACE_TIMEOUT => kiosk.state = "IDLE"

(* C23: an absence of the bbox that begins in SCANNING, timed from its first
   iteration, leaves the kiosk in SCANNING while it has lasted at most
   FACE_TIMEOUT, and the first iteration at which it has lasted longer takes
   the kiosk to IDLE.  A bbox ends the absence: the next one is timed from
   its own first iteration. *)
C23_FaceTimeout ==
    tick.lost_in = "SCANNING" =>
        /\ tick.lost <= FACE_TIMEOUT
               => kiosk.state = "SCANNING" /\ kiosk.face_lost_t = now - tick.lost
        /\ tick.lost > FACE_TIMEOUT
               => kiosk.state = "IDLE" /\ tick.from = "SCANNING" /\ kiosk.t_state = now

\* a scan that had taken predictions lost the bbox; it has been missing for
\* exactly 2.0 s and the kiosk is still scanning
C23_Witness ==
    /\ tick.lost_in = "SCANNING"
    /\ tick.lost = FACE_TIMEOUT
    /\ kiosk.state = "SCANNING"
    /\ predictions # <<>>

(* C24: the kiosk goes from SCANNING to RESULT on exactly the iterations on
   which the buffer locks (and no reset key follows); in RESULT and RESET its
   emotion and confidence are the buffer's locked ones, and they do not change
   from one iteration to the next until the kiosk is back in IDLE. *)
C24_VerdictIsLock ==
    /\ [](kiosk.state \in {"RESULT", "RESET"}
             => /\ locked_emotion # NoneVal
                /\ kiosk.emotion = locked_emotion
                /\ kiosk.confidence = locked_confidence)
    /\ [][/\ (locked_emotion = NoneVal /\ locked_emotion' # NoneVal)
                 <=> (kiosk.state = "SCANNING" /\ kiosk'.state = "RESULT")
          /\ (kiosk.state \in {"RESULT", "RESET"} /\ kiosk'.state \in {"RESULT", "RESET"})
                 => /\ kiosk'.emotion = kiosk.emotion
                    /\ kiosk'.confidence = kiosk.confidence
                    /\ locked_emotion' = locked_emotion
                    /\ locked_confidence' = locked_confidence]_vars

\* the verdict Sad, locked by a scan, has been carried through RESULT into
\* RESET
C24_Witness ==
    /\ kiosk.state = "RESET"
    /\ tick.from = "RESET"
    /\ kiosk.emotion = "Sad"
    /\ locked_emotion = "Sad"
    /\ FracEq(kiosk.confidence, Frac(40, 1))

(* C25: during one stay in RESULT at most one clip is started for the
   verdict's label, whatever the length of the clip. *)
C25_Claimed ==
    kiosk.state = "RESULT" => Len(started[kiosk.emotion]) <= 1

\* dt() as the coming iteration will find it, after its sleep
DtNext == now - kiosk.t_state + tick.period

(* C26: an iteration without the reset key that finds the kiosk in RESULT
   takes it to RESET, with the audio stopped, if the time in the state is
   then more than RESULT_DURATION, and leaves it in RESULT otherwise; one that
   finds it in RESET takes it to IDLE if the time in the state is then more
   than RESET_DURATION and leaves it in RESET otherwise.  Nothing else
   decides: the bbox of the iteration plays no part. *)
C26_TimeOnly ==
    [][(tick'.key = NoneVal /\ kiosk'.t_state # kiosk.t_state) =>
          /\ kiosk.state = "RESULT" =>
                 IF DtNext > RESULT_DURATION
                 THEN /\ kiosk'.state = "RESET"
                      /\ kiosk'.t_state = now
                      /\ ~ap'.is_playing
                      /\ mixer'.sounding = <<>>
                 ELSE kiosk'.state = "RESULT"
          /\ kiosk.state = "RESET" =>
                 IF DtNext > RESET_DURATION
                 THEN kiosk'.state = "IDLE" /\ kiosk'.t_state = now
                 ELSE kiosk'.state = "RESET"]_vars

\* 0.4 s iterations: the one at exactly 12.0 s left the kiosk in RESULT, the
\* next one, with a bbox in the frame, has taken it to RESET
C26_Witness ==
    /\ kiosk.state = "RESET"
    /\ tick.from = "RESULT"
    /\ tick.period = 4
    /\ tick.bbox
    /\ tick.key = NoneVal
    /\ kiosk.t_state = now

\* the kiosk as _full_reset() leaves it
FreshIdle ==
    /\ kiosk.state = "IDLE"
    /\ kiosk.emotion = NoneVal
    /\ kiosk.confidence = ZeroFrac
    /\ predictions = <<>>
    /\ locked_emotion = NoneVal
    /\ locked_confidence = NoneVal
    /\ lock_time = NoTime
    /\ ~ap.is_playing
    /\ ap.play_start_time = NoTime
    /\ ap.current_emotion = NoneVal
    /\ mixer.sounding = <<>>
    /\ ~kiosk.sbox
    /\ kiosk.t_state = now
    /\ kiosk.face_lost_t = NoTime

(* C27: after an iteration that got the reset key, in whatever state, and
   after the iteration on which the RESET timeout fired, the kiosk is in IDLE
   with no verdict, the buffer empty and unlocked, no audio session, the
   smoother uninitialised, the state-entry time that of the iteration and no
   face-lost timestamp. *)
C27_ResetPostState ==
    (tick.key = "r" \/ (tick.from = "RESET" /\ kiosk.state = "IDLE")) => FreshIdle

\* the reset key came while a result was shown, after a clip had been started
C27_Witness ==
    /\ tick.key = "r"
    /\ tick.from = "RESULT"
    /\ kiosk.prev_state = "RESULT"
    /\ ap.next_idx["Happy"] = 1
    /\ FreshIdle

\* the vote window as the coming iteration will find it, after its sleep
AgedWindow ==
    [i \in 1..Len(predictions) |->
        [predictions[i] EXCEPT !.t = Older(@, tick.period, Horizon)]]

\* the window new is the window old, less some of its oldest entries, with
\* the one entry p appended
OneAdded(old, new, p) ==
    /\ new # <<>>
    /\ new[Len(new)] = p
    /\ Len(new) - 1 <= Len(old)
    /\ \A i \in 1..(Len(new) - 1) : new[i] = old[Len(old) - (Len(new) - 1) + i]
    /\ \A i \in 1..(Len(new) - 1) : new[i].t < p.t

(* C30: an iteration without the reset key that finds the kiosk in SCANNING
   and gets a label appends exactly one prediction, that label with its
   confidence at the time of the iteration, to the window (entries older than
   the window go); one that has no crop or gets no label leaves the window as
   it was and the buffer unlocked.  After it the kiosk is in SCANNING, or in
   RESULT on exactly the iterations on which the buffer locked, or in IDLE on
   an iteration without a bbox. *)
C30_OnePrediction ==
    [][(kiosk.state = "SCANNING" /\ tick'.key = NoneVal) =>
          /\ IF tick'.bbox /\ tick'.out[1] # NoneVal
             THEN OneAdded(AgedWindow, predictions',
                           [t |-> now, e |-> tick'.out[1], c |-> tick'.out[2]])
             ELSE predictions' = AgedWindow /\ locked_emotion' = NoneVal
          /\ \/ kiosk'.state = "SCANNING" /\ locked_emotion' = NoneVal
             \/ kiosk'.state = "RESULT" /\ locked_emotion' # NoneVal
             \/ kiosk'.state = "IDLE" /\ ~tick'.bbox /\ locked_emotion' = NoneVal]_vars

\* the classifier gave no label for a crop in the middle of a scan: the
\* window still holds what it held and the scan goes on
C30_Witness ==
    /\ tick.from = "SCANNING"
    /\ tick.bbox
    /\ tick.out[1] = NoneVal
    /\ tick.key = NoneVal
    /\ Len(predictions) >= 2
    /\ kiosk.state = "SCANNING"

(* C28: after an iteration in which one of its operations failed, the loop
   of run() is still running, the kiosk in one of its five states. *)
C28_Claimed ==
    tick.raised # NoneVal => (tick.left = NoneVal /\ kiosk.state \in States)

\* run() is in its loop: the camera is constructed and release() has not
\* been called
LoopRuns == caller.pc \in {"idle", "read_frame"} /\ ~caller.released

\* the device has delivered its last frame: every read fails from now on
DeviceDead == device.delivered = MaxFrames

(* C29: once the device has stopped delivering frames for good while run()
   is in its loop, run() eventually leaves the loop. *)
C29_Claimed == (LoopRuns /\ DeviceDead) ~> ~LoopRuns

(* C31: a published frame is never wider than 1280 px: a frame the device
   delivers wider than that is in the slot with width 1280 and its height
   scaled by the same factor and truncated, any other frame in the size the
   device delivered it. *)
C31_Claimed ==
    cam.frame # NoFrame =>
        /\ cam.frame.w <= ResizeWidth
        /\ IF device.size[1] > ResizeWidth
           THEN /\ cam.frame.w = ResizeWidth
                /\ cam.frame.h = (device.size[2] * ResizeWidth) \div device.size[1]
           ELSE cam.frame.w = device.size[1] /\ cam.frame.h = device.size[2]

----------------------------------------------------------------------------
(* Loading the clips (AudioPlayer._preload).

   An audio directory gives, per category, the files of the category's
   subfolder and the flat files <category>.<ext> in the root.  A file is its
   name, the place n of the name in sorted order, its extension, and whether
   pygame.mixer.Sound() loads it; a clip is the name of its file. *)

\* AUDIO_EXTS
AUDIO_EXTS == {".wav", ".mp3", ".ogg"}

\* what SpecLoad puts into the subfolder and the root for one category
CategoryDirs ==
    { [sub |-> {[n |-> 1, name |-> "happy/1.wav", ext |-> ".wav", ok |-> TRUE],
                [n |-> 2, name |-> "happy/2.mp3", ext |-> ".mp3", ok |-> TRUE]},
       flat |-> {[n |-> 0, name |-> "happy.wav", ext |-> ".wav", ok |-> TRUE]}],
      [sub |-> {[n |-> 1, name |-> "happy/1.wav", ext |-> ".wav", ok |-> FALSE],
                [n |-> 2, name |-> "happy/2.ogg", ext |-> ".ogg", ok |-> TRUE],
                [n |-> 3, name |-> "happy/3.txt", ext |-> ".txt", ok |-> TRUE]},
       flat |-> {}],
      [sub |-> {[n |-> 1, name |-> "happy/1.wav", ext |-> ".wav", ok |-> FALSE]},
       flat |-> {[n |-> 0, name |-> "happy.wav", ext |-> ".wav", ok |-> TRUE]}],
      [sub |-> {},
       flat |-> {[n |-> 0, name |-> "happy.mp3", ext |-> ".mp3", ok |-> TRUE]}],
      [sub |-> {[n |-> 3, name |-> "happy/3.txt", ext |-> ".txt", ok |-> TRUE]},
       flat |-> {[n |-> 0, name |-> "happy.wav", ext |-> ".wav", ok |-> FALSE]}],
      [sub |-> {}, flat |-> {}] }

NoFiles == [sub |-> {}, flat |-> {}]

\* the directories SpecLoad constructs the player on: Happy's files vary
AudioDirs ==
    { [e \in Labels |-> IF e = "Happy" THEN c ELSE NoFiles] : c \in CategoryDirs }

\* sorted(os.listdir(folder_path)): the names of the files, in their order
RECURSIVE SortedFiles(_)
SortedFiles(files) ==
    IF files = {} THEN <<>>
    ELSE LET first == CHOOSE f \in files : \A g \in files : f.n <= g.n
         IN  <<first.name>> \o SortedFiles(files \ {first})

\* the clips of a subfolder: the files with an audio extension that load, in
\* sorted order
FolderClips(files) ==
    SortedFiles({f \in files : f.ext \in AUDIO_EXTS /\ f.ok})

\* self.sounds after _preload(): the clips of the subfolder, or else the flat
\* file <category>.wav if it exists and loads
preload(dir) ==
    [e \in Labels |->
        IF FolderClips(dir[e].sub) # <<>> THEN FolderClips(dir[e].sub)
        ELSE SortedFiles({f \in dir[e].flat : f.ext = ".wav" /\ f.ok})]

\* the player constructed on the directory dir; audio_dir is kept in the object
LoadInit ==
    /\ NoBuffer /\ NoCamera /\ NoKiosk
    /\ now = 0
    /\ \E ok \in BOOLEAN, d \in MaxDurations, dir \in AudioDirs :
           /\ ap = AudioPlayer(ok, d, preload(dir)) @@ [audio_dir |-> dir]
           /\ mixer = Mixer(ok)
    /\ aret = [op |-> "init", arg |-> NoneVal, live |-> FALSE, val |-> NoneVal,
               clip |-> NoneVal, raised |-> FALSE, flip |-> FALSE]
    /\ started = [e \in Labels |-> <<>>]

SpecLoad == LoadInit /\ [][AudioNext]_vars

(* C32: a player whose mixer came up holds, per category, the clips of the
   subfolder that have a supported extension and load, in the order of their
   names; if there are none, one flat file of the category with a supported
   extension that is in the root; and if there is none either, no clip, and
   then no clip of the category is ever started. *)
C32_Claimed ==
    ap.initialized =>
        \A e \in Labels :
            LET folder == FolderClips(ap.audio_dir[e].sub)
                flat == {f \in ap.audio_dir[e].flat : f.ext \in AUDIO_EXTS /\ f.ok}
            IN  IF folder # <<>> THEN ap.sounds[e] = folder
                ELSE IF flat # {}
                THEN \E f \in flat : ap.sounds[e] = <<f.name>>
                ELSE ap.sounds[e] = <<>> /\ started[e] = <<>>

\* the buffer as reset() leaves it
BufferFresh ==
    /\ predictions = <<>>
    /\ locked_emotion = NoneVal
    /\ locked_confidence = NoneVal
    /\ lock_time = NoTime

(* C33: every iteration that takes the kiosk into SCANNING leaves the buffer
   empty and unlocked, whatever an earlier scan left in it; from there only
   the predictions of this scan enter the window (C30), so that nothing of an
   abandoned scan is in the window a verdict is computed from. *)
C33_FreshScan ==
    /\ []((kiosk.state = "SCANNING" /\ tick.from # "SCANNING") => BufferFresh)
    /\ [][(kiosk.state # "SCANNING" /\ kiosk'.state = "SCANNING")
              => /\ predictions' = <<>>
                 /\ locked_emotion' = NoneVal
                 /\ kiosk.state = "DETECTING"]_vars

\* a scan was abandoned with predictions in the window; the kiosk has come
\* back through DETECTING and has just entered SCANNING again
C33_Witness ==
    /\ tick.stale
    /\ tick.from = "DETECTING"
    /\ kiosk.state = "SCANNING"
    /\ BufferFresh

(* C34: after every iteration the kiosk has a verdict exactly if it is in
   RESULT or RESET, and the buffer is locked exactly if it is in RESULT or
   RESET. *)
C34_VerdictIffShown ==
    /\ kiosk.emotion # NoneVal <=> kiosk.state \in {"RESULT", "RESET"}
    /\ locked_emotion # NoneVal <=> kiosk.state \in {"RESULT", "RESET"}

\* a verdict Happy was shown with its clip and timed out through RESET: back
\* in IDLE the verdict is gone and the buffer unlocked
C34_Witness ==
    /\ kiosk.state = "IDLE"
    /\ tick.from = "RESET"
    /\ tick.key = NoneVal
    /\ ap.next_idx["Happy"] = 1
    /\ kiosk.emotion = NoneVal
    /\ locked_emotion = NoneVal

(* C35: after every iteration a session is live, or a clip sounds, only if
   the kiosk is in RESULT; every step that takes the kiosk out of RESULT
   leaves the player stopped and the device silent; and a clip is started
   only by an iteration that found the kiosk in RESULT. *)
C35_AudioOnlyInResult ==
    /\ []((ap.is_playing \/ mixer.sounding # <<>>) => kiosk.state = "RESULT")
    /\ [][/\ (kiosk.state = "RESULT" /\ kiosk'.state # "RESULT")
                 => ~ap'.is_playing /\ mixer'.sounding = <<>>
          /\ (\E e \in Labels : Len(started'[e]) > Len(started[e]))
                 => kiosk.state = "RESULT"]_vars

\* a clip of the verdict Sad is sounding, past the entry window of RESULT
C35_Witness ==
    /\ kiosk.state = "RESULT"
    /\ kiosk.emotion = "Sad"
    /\ ap.is_playing
    /\ ap.current_emotion = "Sad"
    /\ mixer.sounding = <<"sad_0">>
    /\ now - kiosk.t_state > PlayWindow

(* C36: a slot that holds a frame holds a frame after every step, failed
   reads and release() included; so every read_frame() of a constructed
   camera returns a frame, and the test `frame is None` of run() never
   succeeds. *)
C36_SlotNeverEmptied ==
    /\ [][cam.frame # NoFrame => cam'.frame # NoFrame]_vars
    /\ [](caller.pc \in {"idle", "read_frame", "join", "cap"} => cam.frame # NoFrame)
    /\ [](caller.latest > 0 => caller.result # NoFrame)

\* the device has delivered its last frame and release() has returned, the
\* reader is gone and the device closed: the slot still holds that frame and
\* read_frame() has returned a copy of it
C36_Witness ==
    /\ DeviceDead
    /\ caller.released
    /\ caller.pc = "idle"
    /\ reader.pc = "done"
    /\ ~device.opened
    /\ cam.frame.id = MaxFrames
    /\ caller.result = cam.frame

(* C37: when construction fails on the 5 s deadline, the reader has been
   told to stop and the device has been released by the time the error is
   raised. *)
C37_Claimed ==
    caller.pc = "failed" =>
        /\ ~cam.running
        /\ ~device.opened

(* C38: the iteration that takes the kiosk from SCANNING to RESULT was
   given a crop for which the classifier returned a label, and added that
   prediction to the buffer, which it found unlocked; an iteration of
   SCANNING without a bbox never ends in RESULT. *)
C38_LockNeedsCrop ==
    /\ [][(kiosk.state = "SCANNING" /\ kiosk'.state = "RESULT")
              => /\ tick'.bbox
                 /\ tick'.out[1] # NoneVal
                 /\ locked_emotion = NoneVal
                 /\ locked_emotion' # NoneVal
                 /\ predictions' # <<>>
                 /\ predictions'[Len(predictions')] =
                        [t |-> now, e |-> tick'.out[1], c |-> tick'.out[2]]]_vars
    /\ []((tick.from = "SCANNING" /\ ~tick.bbox) => kiosk.state # "RESULT")

\* a run in which the bbox was missing on some iteration: the lock comes
\* with the eighth prediction of the window, added by this iteration
C38_Witness ==
    /\ kiosk.state = "RESULT"
    /\ tick.from = "SCANNING"
    /\ tick.bbox
    /\ tick.out[1] = "Happy"
    /\ ~tick.always_bbox
    /\ tick.period = 4
    /\ Len(predictions) = KioskMinPredictions
    /\ predictions[Len(predictions)].t = now

(* C39: a scan that has a bbox, the same label and no key on each of its
   iterations, at the steady rate, reaches RESULT: it is in
   SCANNING after each iteration up to the first that has given the window 8
   predictions spanning 2.1 s, and in RESULT after that one, 2.1 s or more
   after the scan's first prediction, with that label as the verdict.
   (tick.scan is the number of iterations the scan has had.) *)
ScanDone(k, p) ==
    k >= KioskMinPredictions /\ (k - 1) * p * 10 >= SCAN_DURATION * SpanTenths

C39_ScanCompletes ==
    /\ [](tick.scan > 0 =>
            /\ Len(predictions) = tick.scan
            /\ \A i \in 1..Len(predictions) : predictions[i].e = tick.out[1]
            /\ now - predictions[1].t = (tick.scan - 1) * tick.period
            /\ kiosk.state = IF ScanDone(tick.scan, tick.period)
                             THEN "RESULT" ELSE "SCANNING"
            /\ kiosk.state = "RESULT" =>
                   /\ kiosk.emotion = tick.out[1]
                   /\ (now - predictions[1].t) * 10 >= SCAN_DURATION * SpanTenths)
    /\ []((kiosk.state = "SCANNING" /\ tick.from = "DETECTING")
              => <>(kiosk.state = "RESULT" \/ ~tick.scan_clean))

\* the 22nd iteration of a scan at 0.1 s: the first prediction is 2.1 s old
C39_Witness ==
    /\ tick.period = 1
    /\ tick.scan = 22
    /\ kiosk.state = "RESULT"
    /\ kiosk.emotion = "Happy"
    /\ now - predictions[1].t = 21

(* C40: a play() that got as far as starting a clip (mixer initialised, no
   session live, the category has clips) and started none, because the device
   raised, returns without raising and leaves the player, the device and the
   cursors as it found them; and the cursor of every category that has clips
   is always an index into its clips (a category without clips has no cursor:
   the default 0 is never replaced). *)
PlayFailed ==
    /\ AudioCall("play")
    /\ ap.initialized
    /\ ~ap.is_playing
    /\ ap.sounds[aret'.arg] # <<>>
    /\ aret'.clip = NoneVal

C40_FailedPlayKeepsState ==
    /\ [][PlayFailed => /\ ap' = ap
                        /\ ~ap'.is_playing
                        /\ mixer' = mixer
                        /\ started' = started
                        /\ ~aret'.raised]_vars
    /\ [](\A e \in Labels :
              IF ap.sounds[e] = <<>> THEN ap.next_idx[e] = 0
              ELSE 0 <= ap.next_idx[e] /\ ap.next_idx[e] < Len(ap.sounds[e]))

\* a play() of Happy that failed on a working mixer after one clip of the
\* category had been played: the cursor is still on the second clip
C40_Witness ==
    /\ aret.op = "play"
    /\ aret.arg = "Happy"
    /\ ~aret.live
    /\ aret.clip = NoneVal
    /\ ~aret.raised
    /\ ap.initialized
    /\ mixer.alive
    /\ ~ap.is_playing
    /\ ap.play_start_time = NoTime
    /\ ap.next_idx["Happy"] = 1
    /\ Len(started["Happy"]) = 1

====
